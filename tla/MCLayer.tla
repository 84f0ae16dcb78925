-------------------------------- MODULE MCLayer --------------------------------
(* Instances of Layer for TLC. *)
EXTENDS Layer, TLC

CONSTANTS top, left, right, db, users, mails, app, cache, other

(* Two services that need the same database, side by side. *)
Both == top :> "zipWithPar" @@ left :> "provideTo" @@ right :> "provideTo"

(* A service that has another one as its fallback, with the same database. *)
Fallback == top :> "orElse" @@ left :> "zipWithPar" @@ right :> "provideTo"

AllKinds == {Both, Fallback}

AllLeaves == {db, users, mails}
AllComposed == {top, left, right}
AllParts == top :> <<left, right>> @@ left :> <<db, users>> @@ right :> <<db, mails>>

AllScopes == {db, users, mails, top, left, right, app}
AllResources == {db, users, mails, cache}
===============================================================================
