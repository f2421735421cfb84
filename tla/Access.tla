------------------------------- MODULE Access -------------------------------
(***************************************************************************)
(* What a standalone gateway knows a request by, and lets it have: the key  *)
(* and its user (UserKeys), the user's rate limit (RateLimiter) and the     *)
(* user's files (UserFiles).  The routes of the files have no rate limit; a *)
(* request for a model is checked against it before its attachments are     *)
(* looked at.  Users, keys and files are in the database, the limiter's     *)
(* deques in the memory of the process, by user and not by key.             *)
(***************************************************************************)
EXTENDS Integers, Sequences, FiniteSets

CONSTANTS Users, Keys, Files, Requests,
          Actors,            \* administrators, and replicas that boot
          NoUser, NoFile,
          Faults,            \* subset of {"database", "disk", "died"}
          MaxPages,          \* bound: pages of a scanned document
          Rpm, Window, TicksPerSecond, CleanupInterval,   \* RateLimiter
          MaxTime            \* bound: the last instant of the limiter's clock

ASSUME AccessAssumption ==
  /\ NoUser \notin Users \cup Keys /\ NoFile \notin Files
  /\ Faults \subseteq {"database", "disk", "died"}
  /\ MaxPages \in Nat /\ MaxTime \in Nat
  /\ Rpm \in Nat \ {0} /\ Window \in Nat \ {0} /\ TicksPerSecond \in Nat \ {0}
  /\ CleanupInterval \in Nat \ {0}

VARIABLES
  limited, files,                                       \* rate_limit_rpm is set; files_enabled
  user, holder, active, lapsed, fresh, op, excused,     \* UserKeys
  requests, callCount, now, accepted, promised,         \* RateLimiter
  rows, owner, expired, blobs, marks,                   \* UserFiles
  pc, who, key, answer, file, turn                      \* the requests

config  == <<limited, files>>
keys    == <<user, holder, active, lapsed, fresh, op, excused>>
limiter == <<requests, callCount, now, accepted, promised>>
stored  == <<rows, owner, expired, blobs, marks>>
asked   == <<pc, who, key, answer, file, turn>>
vars    == <<config, keys, limiter, stored, asked>>

Doors  == INSTANCE UserKeys
Limits == INSTANCE RateLimiter
Shelf  == INSTANCE UserFiles

Init ==
  /\ limited \in BOOLEAN /\ files \in BOOLEAN
  /\ Doors!Init /\ Limits!Init /\ Shelf!Init

\* What the last request of this slot was about is forgotten with the next.
Forgets(r) ==
  /\ file' = [file EXCEPT ![r] = NoFile]
  /\ turn' = [turn EXCEPT ![r] = Shelf!NoTurn]

Enter ==
  /\ \E r \in Requests :
       \/ (Doors!Lookup(r) \/ Doors!MasterKey(r)) /\ Forgets(r)
       \/ Doors!Touch(r) /\ UNCHANGED <<file, turn>>
  /\ UNCHANGED <<config, limiter, stored>>

Administer ==
  /\ Doors!Administer \/ Doors!KeyAges
  /\ UNCHANGED <<config, limiter, stored, file, turn>>

\* A request for a model: check_rate_limit(user), where there is a limiter.
Admit ==
  /\ \E r \in Requests :
       /\ pc[r] = "in"
       /\ \/ /\ ~limited /\ Shelf!Goes(r, "chat") /\ UNCHANGED limiter
          \/ /\ limited /\ Limits!Check(who[r])
             /\ IF accepted' # accepted THEN Shelf!Goes(r, "chat")
                                        ELSE Shelf!Answers(r, "refused")
  /\ UNCHANGED <<config, keys, stored, key, file, turn>>

\* Where files are not enabled their routes answer 404 and attachments stay as
\* they are.
UseFiles ==
  /\ IF files THEN Shelf!Next ELSE \E r \in Requests : Shelf!PlainChat(r)
  /\ UNCHANGED <<config, keys, limiter, key>>

Tick == /\ limited /\ Limits!Tick
        /\ UNCHANGED <<config, keys, stored, asked>>

Next == Enter \/ Administer \/ Admit \/ UseFiles \/ Tick

Spec == Init /\ [][Next]_vars

-----------------------------------------------------------------------------
(***************************************************************************)
(* Properties of the parts, in this composition.                           *)
(***************************************************************************)

\* A deleted user's keys do not work, but for a cause (UserKeys).
KeysFollowUsers == Doors!KeysFollowUsers

\* No bytes without a row, no row without its bytes, but for a cause (UserFiles).
StoredIsReachable == Shelf!StoredIsReachable

\* A user's own files, and no others, reach their requests, and the side calls an
\* attachment takes are billed to the last (UserFiles).
AttachmentsArrive == Shelf!OwnFilesArrive /\ Shelf!VisionIsBilled

\* No more than Rpm of a user's requests in a window, with whatever keys, and a
\* user who waits as long as told is let through (RateLimiter).
LimitHolds == Limits!WindowHolds /\ Limits!RetryAfterIsEnough

=============================================================================
