------------------------------ MODULE MCAccess ------------------------------
(***************************************************************************)
(* Access for TLC.                                                         *)
(***************************************************************************)
EXTENDS Access, TLC

AllFaults == {"database", "disk", "died"}

\* The parts meet in the user a request comes in with, so each is explored
\* where the others stand still: the keys are administered where there is
\* neither a limiter nor a file, and files and limiter are used by one request
\* of each user's keys that work.
OnePartAtATime ==
  /\ limited => ~files
  /\ limited \/ files =>
       op' = op /\ lapsed' = {} /\ fresh' = Keys
       /\ \A r \in Requests : answer'[r] = "fault" => pc[r] # "out"

\* What an administrator read is all that matters of the time between the read and
\* the commit: no key ages in it, and a request is about to mark its key or has
\* not come yet (it changes nothing that an administrator reads, and they nothing
\* of what is fresh).
AtWork ==
  (\E a \in Actors : op[a] # Doors!Idle) =>
    /\ lapsed' \subseteq lapsed
    /\ fresh = {} \/ fresh' # fresh
    /\ \A r \in Requests : pc[r] = "touch" \/ (pc[r] = "out" /\ answer[r] = "none")

\* Requests meet in files only: elsewhere, and for an attachment that is no file,
\* one at a time is enough.
OneRequest ==
  \/ Cardinality({r \in Requests : answer[r] # "none" \/ pc[r] # "out"}) <= 1
  \/ files /\ \A r \in Requests : turn[r].source # "other"

\* At most one thing goes wrong with a file.
OneMark == \A f \in Files : Cardinality(marks[f]) <= 1

Symmetric == Permutations(Users) \cup Permutations(Keys) \cup Permutations(Actors)
             \cup Permutations(Requests)

=============================================================================
