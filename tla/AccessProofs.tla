---------------------------- MODULE AccessProofs ----------------------------
(***************************************************************************)
(* Proofs about Access, for any users, keys, files, requests, actors and   *)
(* faults and any limit: keys follow their users, rows and bytes of files  *)
(* belong together, a request gets its own user's files, and the limit     *)
(* holds.                                                                  *)
(***************************************************************************)
EXTENDS Access, SequenceTheorems, FiniteSetTheorems, TLAPS

-----------------------------------------------------------------------------
(***************************************************************************)
(* Keys and users.                                                         *)
(***************************************************************************)

\* What an administrator is about to commit names a key or a user that exists.
OpInv(o) ==
  /\ o.kind \in {"create", "enable", "disable", "renew", "drop"} => o.key \in Keys
  /\ o.kind \in {"create", "delete", "user", "revoked"} => o.user \in Users

\* A delete_user between its UPDATE and its commit: a key of the user that works
\* and that the UPDATE did not find was created or enabled since.
RevokesAll(o) ==
  o.kind = "revoked" =>
    \A k \in Keys : holder[k] = o.user /\ k \in active => k \in o.keys \cup excused

KeysInv ==
  /\ DOMAIN user = Users /\ holder \in [Keys -> Users \cup {NoUser}]
  /\ DOMAIN op = Actors /\ \A a \in Actors : OpInv(op[a]) /\ RevokesAll(op[a])
  /\ KeysFollowUsers

\* The commits of administrators.
LEMMA KeysWritten ==
  ASSUME KeysInv, NEW a \in Actors, Doors!Written(op[a])
  PROVE  /\ DOMAIN user' = Users /\ holder' \in [Keys -> Users \cup {NoUser}]
         /\ KeysFollowUsers'
         /\ \A b \in Actors : op[b].kind = "revoked" =>
              \A k \in Keys : holder'[k] = op[b].user /\ k \in active' => k \in op[b].keys \cup excused'
  <1> DEFINE o == op[a]
  <1>1. /\ OpInv(o) /\ RevokesAll(o) /\ Doors!Written(o)
        /\ DOMAIN user = Users /\ holder \in [Keys -> Users \cup {NoUser}]
        /\ \A k \in Keys : holder[k] # NoUser /\ k \in active /\ user[holder[k]] = "deleted" => k \in excused
    BY DEF KeysInv, KeysFollowUsers, Doors!KeysFollowUsers, Doors!Existing
  <1>2. \A b \in Actors : op[b].kind = "revoked" =>
          /\ Doors!Leaving(op[b].user)
          /\ \A k \in Keys : holder[k] = op[b].user /\ k \in active => k \in op[b].keys \cup excused
    BY DEF KeysInv, RevokesAll, Doors!Leaving, Doors!Revoking
  <1>3. \A u \in Users : user[u] = "deleted" => Doors!Leaving(u)
    BY DEF Doors!Leaving
  <1> HIDE DEF o
  <1> USE DEF OpInv, KeysFollowUsers, Doors!KeysFollowUsers, Doors!Existing
  <1>4. CASE Doors!CreateKeyCommits(o)
    <2>1. /\ o.key \in Keys /\ o.user \in Users /\ o.user # NoUser
          /\ holder' = [holder EXCEPT ![o.key] = o.user] /\ active' = active \cup {o.key}
          /\ excused' = IF Doors!Leaving(o.user) THEN excused \cup {o.key} ELSE excused \ {o.key}
          /\ user' = user \/ (user[o.user] = "none" /\ user' = [user EXCEPT ![o.user] = "live"])
      BY <1>1, <1>4, AccessAssumption DEF Doors!CreateKeyCommits
    <2>2. \A k \in Keys : /\ holder'[k] = IF k = o.key THEN o.user ELSE holder[k]
                          /\ k # o.key => (k \in active' <=> k \in active) /\ (k \in excused' <=> k \in excused)
      BY <1>1, <2>1
    <2>3. \A u \in Users : user'[u] = "deleted" => user[u] = "deleted"
      BY <1>1, <2>1
    <2>4. KeysFollowUsers'
      BY <1>1, <1>3, <2>1, <2>2, <2>3
    <2> QED BY <1>1, <1>2, <2>1, <2>2, <2>4
  <1>5. CASE Doors!UpdateKeyCommits(o)
    <2>1. /\ o.key \in Keys /\ holder[o.key] \in Users /\ UNCHANGED <<user, holder>>
          /\ \A k \in Keys : k # o.key /\ k \in active' => k \in active
          /\ o.key \in active' /\ o.key \notin active /\ Doors!Leaving(holder[o.key]) => o.key \in excused'
          /\ excused \subseteq excused'
      BY <1>1, <1>5 DEF Doors!UpdateKeyCommits
    <2>2. KeysFollowUsers'
      BY <1>1, <1>3, <2>1
    <2> QED BY <1>1, <1>2, <2>1, <2>2
  <1>6. CASE Doors!DeleteKeyCommits(o)
    BY <1>1, <1>2, <1>6 DEF Doors!DeleteKeyCommits
  <1>7. CASE Doors!DeleteUserCommits(o)
    BY <1>1, <1>2, <1>7 DEF Doors!DeleteUserCommits, RevokesAll
  <1>8. CASE Doors!CreateUserCommits(o)
    BY <1>1, <1>2, <1>8 DEF Doors!CreateUserCommits, Doors!rowsOfKeys
  <1> QED BY <1>1, <1>4, <1>5, <1>6, <1>7, <1>8 DEF Doors!Written

\* What their reads note.
LEMMA KeysBegun ==
  ASSUME KeysInv, NEW a \in Actors,
         \/ Doors!CreateKey(a) \/ Doors!BootstrapFirstKey(a) \/ Doors!UpdateKey(a)
         \/ Doors!DeleteKey(a) \/ Doors!DeleteUser(a) \/ Doors!RevokeKeys(a) \/ Doors!CreateUser(a)
  PROVE  /\ UNCHANGED <<user, holder, active, excused>>
         /\ \E o : OpInv(o) /\ RevokesAll(o) /\ op' = [op EXCEPT ![a] = o]
  <1> USE DEF Doors!Begin, Doors!rowsOfKeys, OpInv, RevokesAll
  <1>1. ASSUME NEW k \in Keys, NEW u \in Users, NEW saw,
               Doors!Begin(a, [kind |-> "create", key |-> k, user |-> u, saw |-> saw])
        PROVE  /\ UNCHANGED <<user, holder, active, excused>>
               /\ \E o : OpInv(o) /\ RevokesAll(o) /\ op' = [op EXCEPT ![a] = o]
    BY <1>1
  <1>2. CASE Doors!CreateKey(a) \/ Doors!BootstrapFirstKey(a)
    BY <1>1, <1>2 DEF Doors!CreateKey, Doors!BootstrapFirstKey
  <1>3. CASE Doors!UpdateKey(a) \/ Doors!DeleteKey(a)
    BY <1>3 DEF Doors!UpdateKey, Doors!DeleteKey, Doors!Existing
  <1>4. CASE Doors!DeleteUser(a) \/ Doors!CreateUser(a)
    BY <1>4 DEF Doors!DeleteUser, Doors!CreateUser
  <1>5. CASE Doors!RevokeKeys(a)
    <2> DEFINE o == [kind |-> "revoked", user |-> op[a].user, keys |-> Doors!KeysOf(op[a].user)]
    <2>1. op[a].kind = "delete" /\ op[a].user \in Users /\ op' = [op EXCEPT ![a] = o]
          /\ UNCHANGED <<user, holder, active, excused>>
      BY <1>5 DEF Doors!RevokeKeys, KeysInv
    <2>2. OpInv(o) /\ RevokesAll(o)
      BY <2>1 DEF Doors!KeysOf
    <2> QED BY <2>1, <2>2
  <1> QED BY <1>2, <1>3, <1>4, <1>5

LEMMA KeysUnchanged ==
  ASSUME KeysInv, UNCHANGED <<user, holder, active, excused>>,
         DOMAIN op' = Actors, \A a \in Actors : OpInv(op'[a]) /\ RevokesAll(op'[a])
  PROVE  KeysInv'
  <1>1. \A a \in Actors : OpInv(op[a])' /\ RevokesAll(op[a])'
    BY DEF OpInv, RevokesAll
  <1> QED BY <1>1 DEF KeysInv, KeysFollowUsers, Doors!KeysFollowUsers, Doors!Existing

LEMMA KeysStep == ASSUME KeysInv, [Next]_vars PROVE KeysInv'
  <1>1. ASSUME NEW a \in Actors,
               \/ Doors!CreateKey(a) \/ Doors!BootstrapFirstKey(a) \/ Doors!UpdateKey(a)
               \/ Doors!DeleteKey(a) \/ Doors!DeleteUser(a) \/ Doors!RevokeKeys(a) \/ Doors!CreateUser(a)
        PROVE  KeysInv'
    BY <1>1, KeysBegun, KeysUnchanged DEF KeysInv
  <1>2. OpInv(Doors!Idle) /\ RevokesAll(Doors!Idle) /\ Doors!Idle.kind = "idle"
    BY DEF OpInv, RevokesAll, Doors!Idle
  <1>3. ASSUME NEW a \in Actors, Doors!Commit(a) PROVE KeysInv'
    <2>1. /\ Doors!Written(op[a]) /\ op' = [op EXCEPT ![a] = Doors!Idle]
          /\ DOMAIN op = Actors /\ \A b \in Actors : OpInv(op[b])
      BY <1>3 DEF Doors!Commit, KeysInv
    <2>2. /\ DOMAIN user' = Users /\ holder' \in [Keys -> Users \cup {NoUser}]
          /\ KeysFollowUsers'
          /\ \A b \in Actors : op[b].kind = "revoked" =>
               \A k \in Keys : holder'[k] = op[b].user /\ k \in active' => k \in op[b].keys \cup excused'
      BY <2>1, KeysWritten
    <2>3. DOMAIN op' = Actors /\ \A b \in Actors : op'[b] = IF b = a THEN Doors!Idle ELSE op[b]
      BY <2>1
    <2>4. ASSUME NEW b \in Actors PROVE OpInv(op[b])' /\ RevokesAll(op[b])'
      <3>1. CASE b = a
        BY <1>2, <2>3, <3>1 DEF OpInv, RevokesAll
      <3>2. CASE b # a
        BY <2>1, <2>2, <2>3, <3>2 DEF OpInv, RevokesAll
      <3> QED BY <3>1, <3>2
    <2> QED BY <2>2, <2>3, <2>4 DEF KeysInv
  <1>4. ASSUME NEW a \in Actors, Doors!CommitFails(a) PROVE KeysInv'
    BY <1>2, <1>4, KeysUnchanged DEF Doors!CommitFails, Doors!rowsOfKeys, KeysInv
  <1>5. CASE Administer
    BY <1>1, <1>3, <1>4, <1>5, KeysUnchanged
    DEF Administer, Doors!Administer, Doors!KeyAges, KeysInv
  <1>6. CASE Enter
    BY <1>6, KeysUnchanged
    DEF Enter, Doors!Lookup, Doors!Touch, Doors!MasterKey, Doors!rowsOfKeys, KeysInv
  <1>7. CASE Admit \/ UseFiles \/ Tick \/ UNCHANGED vars
    BY <1>7, KeysUnchanged DEF Admit, UseFiles, Tick, vars, keys, KeysInv
  <1> QED BY <1>5, <1>6, <1>7 DEF Next

\* delete_user revokes a user's keys for good, but for those enabled after its
\* UPDATE of them or created by an administrator who had read the user before:
\* whatever administrators, booting replicas and requests do in between
\* (routes/keys.py, routes/users.py, deps.py).
THEOREM KeysFollow == Spec => []KeysFollowUsers
  <1>1. Init => KeysInv
    BY DEF Init, Doors!Init, KeysInv, KeysFollowUsers, Doors!KeysFollowUsers, OpInv, RevokesAll, Doors!Idle
  <1>2. KeysInv => KeysFollowUsers
    BY DEF KeysInv
  <1> QED BY <1>1, <1>2, KeysStep, PTL DEF Spec

-----------------------------------------------------------------------------
(***************************************************************************)
(* Files.                                                                  *)
(***************************************************************************)
FilesTypeOK ==
  /\ rows \in [Files -> {"none", "live", "deleted"}] /\ owner \in [Files -> Users \cup {NoUser}]
  /\ DOMAIN marks = Files /\ blobs \subseteq Files
  /\ DOMAIN pc = Requests /\ DOMAIN who = Requests /\ DOMAIN answer = Requests
  /\ DOMAIN key = Requests
  /\ DOMAIN file = Requests /\ DOMAIN turn = Requests
  /\ \A r \in Requests : DOMAIN turn[r] = DOMAIN Shelf!NoTurn

\* A file that no one has uploaded is nowhere.
UnusedInv == \A f \in Files : owner[f] = NoUser => rows[f] = "none" /\ f \notin blobs

\* A request whose user has no claim to the file it names, or whose file is past
\* saving.
Hopeless(r) == ~Shelf!Found(file[r], who[r]) \/ marks[file[r]] # {}

\* The user's own file, which there is or has been.
OwnFile(r)  == file[r] \in Files /\ owner[file[r]] = who[r]
Known(r)    == file[r] \in Files /\ rows[file[r]] # "none"

\* What an attachment was made, and of whose file.
TurnInv(r) ==
  turn[r].source = "file" =>
    /\ Known(r)
    /\ turn[r].forwarded \in {"inlined", "rendering", "text"} => OwnFile(r)
    /\ turn[r].forwarded = "block" => Hopeless(r)

\* What a request knows of its file wherever it stands.
StandsInv(r) ==
  /\ pc[r] # "out" => who[r] \in Users
  /\ pc[r] \in {"in", "touch", "chat"} => file[r] = NoFile
  /\ pc[r] \in {"put", "commit", "cleanup", "read", "erase", "unlink", "bytes"} => OwnFile(r)
  /\ pc[r] \in {"put", "commit"} => rows[file[r]] = "none"
  /\ pc[r] = "commit" => file[r] \in blobs
  /\ pc[r] = "cleanup" => rows[file[r]] # "live" \/ "answer lost" \in marks[file[r]]
  /\ pc[r] \in {"read", "erase", "bytes"} => Known(r)
  /\ pc[r] = "unlink" => rows[file[r]] = "deleted"
  /\ pc[r] \in {"render", "page", "settle"} => TurnInv(r)
  /\ pc[r] \in {"render", "page"} /\ turn[r].source = "file" => OwnFile(r)
  /\ turn[r].stats = turn[r].spent

\* What it was answered, until the slot is used again.
AnsweredInv(r) ==
  pc[r] = "out" =>
    /\ answer[r] \in {"content", "error", "answered"} => who[r] \in Users
    /\ answer[r] = "content" => OwnFile(r)
    /\ answer[r] = "error" => Known(r) /\ Hopeless(r)
    /\ answer[r] = "answered" => TurnInv(r)

\* A file is uploaded by one request.
UploaderInv ==
  \A q, r \in Requests :
    {pc[q], pc[r]} \subseteq {"put", "commit", "cleanup"} /\ file[q] = file[r] => q = r

\* Bytes without a row are about to get one, or to go.
BytesInv ==
  /\ \A f \in Files : rows[f] = "live" => f \in blobs \/ "answer lost" \in marks[f]
  /\ \A f \in blobs : \/ rows[f] = "live" \/ marks[f] # {}
                      \/ \E r \in Requests : file[r] = f /\ pc[r] \in {"commit", "cleanup", "unlink"}

FilesInv ==
  /\ FilesTypeOK /\ UnusedInv /\ UploaderInv /\ BytesInv
  /\ \A r \in Requests : StandsInv(r) /\ AnsweredInv(r)

-----------------------------------------------------------------------------
\* A step of request r alone, which alters no file but g, if any.
Alone(r) ==
  /\ \A q \in Requests \ {r} :
       /\ pc'[q] = pc[q] /\ who'[q] = who[q] /\ answer'[q] = answer[q]
       /\ file'[q] = file[q] /\ turn'[q] = turn[q]
AltersOnly(g) ==
  /\ \A f \in Files \ {g} : rows'[f] = rows[f] /\ owner'[f] = owner[f] /\ marks'[f] = marks[f]
  /\ \A f \in Files \ {g} : f \in blobs' <=> f \in blobs
  /\ expired \subseteq expired'

\* The file g only gets older.
Ages(g) ==
  /\ owner[g] # NoUser => owner'[g] = owner[g]
  /\ marks[g] \subseteq marks'[g]
  /\ rows[g] # "none" => rows'[g] # "none"
  /\ rows[g] = "deleted" => rows'[g] = "deleted"

Uploading == {"put", "commit", "cleanup"}

\* Who lists a file uploads it, and who removes its bytes has failed to list it
\* or erased it.
MayAlter(r, g) ==
  /\ rows[g] = "none" /\ rows'[g] # "none" => pc[r] \in Uploading /\ file[r] = g
  /\ g \in blobs /\ g \notin blobs' => pc[r] \in {"cleanup", "unlink"} /\ file[r] = g

LEMMA OthersStand ==
  ASSUME FilesInv, NEW r \in Requests, NEW g \in Files \cup {NoFile}, Alone(r), AltersOnly(g),
         g \in Files => Ages(g) /\ MayAlter(r, g),
         NEW q \in Requests, q # r
  PROVE  StandsInv(q)' /\ AnsweredInv(q)'
  <1>1. StandsInv(q) /\ AnsweredInv(q) /\ UnusedInv /\ FilesTypeOK /\ UploaderInv
    BY DEF FilesInv
  <1>2. /\ pc'[q] = pc[q] /\ who'[q] = who[q] /\ answer'[q] = answer[q]
        /\ file'[q] = file[q] /\ turn'[q] = turn[q]
    BY DEF Alone
  <1>3. OwnFile(q) /\ who[q] \in Users => OwnFile(q)'
    BY <1>1, <1>2, AccessAssumption DEF OwnFile, AltersOnly, Ages
  <1>4. Known(q) => Known(q)'
    BY <1>2 DEF Known, AltersOnly, Ages
  <1>5. Known(q) /\ Hopeless(q) => Hopeless(q)'
    <2>1. SUFFICES ASSUME Known(q), Hopeless(q) PROVE Hopeless(q)'
      OBVIOUS
    <2>2. file[q] \in Files /\ rows[file[q]] # "none" /\ owner[file[q]] # NoUser
      BY <1>1, <2>1 DEF Known, UnusedInv
    <2>3. /\ owner'[file[q]] = owner[file[q]] /\ marks[file[q]] \subseteq marks'[file[q]]
          /\ rows'[file[q]] = "live" => rows[file[q]] = "live"
      BY <1>1, <2>2 DEF AltersOnly, Ages, FilesTypeOK
    <2> QED BY <1>2, <2>1, <2>3 DEF Hopeless, Shelf!Found, AltersOnly
  <1>6. TurnInv(q) /\ who[q] \in Users => TurnInv(q)'
    BY <1>2, <1>3, <1>4, <1>5 DEF TurnInv
  <1>7. StandsInv(q)'
    <2>1. pc[q] \in Uploading /\ pc[r] \in Uploading => file[q] # file[r]
      BY <1>1 DEF UploaderInv, Uploading
    <2>2. pc[q] \in {"put", "commit"} => file[q] \in Files /\ rows'[file[q]] = "none"
      BY <1>1, <2>1 DEF StandsInv, OwnFile, AltersOnly, MayAlter, Uploading
    <2>3. pc[q] = "commit" => file[q] \in blobs'
      <3>1. pc[q] = "commit" => file[q] \in Files /\ file[q] \in blobs /\ rows[file[q]] = "none"
        BY <1>1 DEF StandsInv, OwnFile
      <3>2. pc[r] = "unlink" => rows[file[r]] = "deleted"
        BY DEF FilesInv, StandsInv
      <3> QED BY <2>1, <3>1, <3>2 DEF AltersOnly, MayAlter, Uploading
    <2>4. pc[q] = "cleanup" => rows'[file[q]] # "live" \/ "answer lost" \in marks'[file[q]]
      <3>1. pc[q] = "cleanup" =>
              file[q] \in Files /\ (rows[file[q]] # "live" \/ "answer lost" \in marks[file[q]])
        BY <1>1 DEF StandsInv, OwnFile
      <3>2. pc[q] = "cleanup" /\ rows'[file[q]] = "live" => rows[file[q]] = "live"
        BY <1>1, <2>1, <3>1 DEF AltersOnly, Ages, MayAlter, Uploading, FilesTypeOK
      <3> QED BY <3>1, <3>2 DEF AltersOnly, Ages
    <2>5. pc[q] = "unlink" => rows'[file[q]] = "deleted"
      BY <1>1 DEF StandsInv, OwnFile, AltersOnly, Ages
    <2> QED
      BY <1>1, <1>2, <1>3, <1>4, <1>6, <2>2, <2>3, <2>4, <2>5 DEF StandsInv
  <1>8. AnsweredInv(q)'
    BY <1>1, <1>2, <1>3, <1>4, <1>5, <1>6 DEF AnsweredInv
  <1> QED BY <1>7, <1>8
\* What is left to show of a step: that the request itself stands right, and
\* that the bytes of the file it alters belong to a row or to it.
BytesOf(r, g) ==
  /\ owner'[g] # NoUser \/ (rows'[g] = "none" /\ g \notin blobs')
  /\ rows'[g] = "live" => g \in blobs' \/ "answer lost" \in marks'[g]
  /\ g \in blobs' => \/ rows'[g] = "live" \/ marks'[g] # {}
                     \/ file'[r] = g /\ pc'[r] \in {"commit", "cleanup", "unlink"}

LEMMA FileSteps ==
  ASSUME FilesInv, FilesTypeOK', NEW r \in Requests, NEW g \in Files \cup {NoFile},
         Alone(r), AltersOnly(g),
         g \in Files => Ages(g) /\ MayAlter(r, g) /\ BytesOf(r, g),
         pc[r] \in {"commit", "cleanup", "unlink"} => file[r] = g,
         \/ pc'[r] \notin Uploading
         \/ pc[r] \in Uploading /\ file'[r] = file[r]
         \/ g \in Files /\ owner[g] = NoUser /\ file'[r] = g,
         StandsInv(r)', AnsweredInv(r)'
  PROVE  FilesInv'
  <1>1. ASSUME NEW q \in Requests PROVE StandsInv(q)' /\ AnsweredInv(q)'
    BY OthersStand
  <1>2. UnusedInv'
    BY DEF FilesInv, UnusedInv, AltersOnly, BytesOf
  <1>3. UploaderInv'
    <2>1. SUFFICES ASSUME NEW q \in Requests, q # r, pc'[q] \in Uploading, pc'[r] \in Uploading,
                          file'[q] = file'[r]
                   PROVE  FALSE
      BY DEF UploaderInv, Uploading, FilesInv, Alone
    <2>2. pc[q] \in Uploading /\ file[q] = file'[r]
      BY <2>1 DEF Alone
    <2>3. OwnFile(q) /\ who[q] \in Users
      BY <2>2 DEF FilesInv, StandsInv, Uploading
    <2> QED
      BY <2>1, <2>2, <2>3, AccessAssumption DEF FilesInv, UploaderInv, Uploading, OwnFile
  <1>4. BytesInv'
    <2>1. ASSUME NEW f \in Files, f # g
          PROVE  /\ rows'[f] = "live" => f \in blobs' \/ "answer lost" \in marks'[f]
                 /\ f \in blobs' => \/ rows'[f] = "live" \/ marks'[f] # {}
                                  \/ \E q \in Requests : /\ file'[q] = f
                                        /\ pc'[q] \in {"commit", "cleanup", "unlink"}
      <3>1. /\ rows'[f] = rows[f] /\ marks'[f] = marks[f] /\ (f \in blobs' <=> f \in blobs)
        BY <2>1 DEF AltersOnly
      <3>2. rows[f] = "live" => f \in blobs \/ "answer lost" \in marks[f]
        BY DEF FilesInv, BytesInv
      <3>3. ASSUME NEW q \in Requests, file[q] = f, pc[q] \in {"commit", "cleanup", "unlink"}
            PROVE  file'[q] = f /\ pc'[q] \in {"commit", "cleanup", "unlink"}
        BY <2>1, <3>3 DEF Alone
      <3>4. f \in blobs => \/ rows[f] = "live" \/ marks[f] # {}
                           \/ \E q \in Requests : /\ file[q] = f
                                  /\ pc[q] \in {"commit", "cleanup", "unlink"}
        BY DEF FilesInv, BytesInv
      <3> QED BY <3>1, <3>2, <3>3, <3>4
    <2>2. g \in Files =>
            /\ rows'[g] = "live" => g \in blobs' \/ "answer lost" \in marks'[g]
            /\ g \in blobs' => \/ rows'[g] = "live" \/ marks'[g] # {}
                             \/ \E q \in Requests : /\ file'[q] = g
                                    /\ pc'[q] \in {"commit", "cleanup", "unlink"}
      BY DEF BytesOf
    <2> QED BY <2>1, <2>2 DEF BytesInv, FilesTypeOK
  <1> QED BY <1>1, <1>2, <1>3, <1>4 DEF FilesInv

\* The steps that leave the files alone.
LEMMA QuietSteps ==
  ASSUME FilesInv, FilesTypeOK', NEW r \in Requests, Alone(r),
         UNCHANGED <<rows, owner, blobs, marks>>, expired \subseteq expired',
         pc[r] \notin {"commit", "cleanup", "unlink"}, pc'[r] \notin Uploading,
         StandsInv(r)', AnsweredInv(r)'
  PROVE  FilesInv'
  <1>1. AltersOnly(NoFile) /\ NoFile \notin Files
    BY AccessAssumption DEF AltersOnly
  <1> QED BY <1>1, FileSteps

\* Who enters, and is let in.
LEMMA EntersStep == ASSUME KeysInv, FilesInv, Enter PROVE FilesInv'
  <1> USE DEF FilesTypeOK, stored, config, limiter
  <1>1. PICK r \in Requests :
          \/ (Doors!Lookup(r) \/ Doors!MasterKey(r)) /\ Forgets(r)
          \/ Doors!Touch(r) /\ UNCHANGED <<file, turn>>
    BY DEF Enter
  <1>2. UNCHANGED <<rows, owner, expired, blobs, marks>>
    BY DEF Enter
  <1>3. StandsInv(r) /\ FilesTypeOK
    BY DEF FilesInv
  <1>4. CASE Doors!Lookup(r) /\ Forgets(r)
    <2>1. /\ pc[r] = "out" /\ pc'[r] \in {"in", "touch", "out"}
          /\ pc'[r] = "out" => answer'[r] \in {"refused", "fault"}
          /\ pc'[r] # "out" => who'[r] \in Users
          /\ file'[r] = NoFile /\ turn'[r] = Shelf!NoTurn
      BY <1>3, <1>4 DEF Doors!Lookup, Doors!Works, Doors!Existing, Doors!Answers, Forgets, KeysInv
    <2>2. FilesTypeOK' /\ Alone(r)
      BY <1>2, <1>3, <1>4, <2>1 DEF Doors!Lookup, Doors!Answers, Forgets, Alone
    <2>3. turn'[r].stats = turn'[r].spent
      BY <2>1 DEF Shelf!NoTurn
    <2>4. CASE pc'[r] = "out"
      BY <2>1, <2>3, <2>4, QuietSteps, <1>2, <2>2 DEF StandsInv, AnsweredInv, Uploading
    <2>5. CASE pc'[r] \in {"in", "touch"}
      BY <2>1, <2>3, <2>5, QuietSteps, <1>2, <2>2 DEF StandsInv, AnsweredInv, Uploading
    <2> QED BY <2>1, <2>4, <2>5
  <1>5. CASE Doors!MasterKey(r) /\ Forgets(r)
    <2>1. /\ pc[r] = "out" /\ pc'[r] = "in" /\ who'[r] \in Users
          /\ file'[r] = NoFile /\ turn'[r] = Shelf!NoTurn
      BY <1>3, <1>5 DEF Doors!MasterKey, Forgets
    <2>2. FilesTypeOK' /\ Alone(r)
      BY <1>2, <1>3, <1>5, <2>1 DEF Doors!MasterKey, Forgets, Alone
    <2>3. StandsInv(r)' /\ AnsweredInv(r)'
      BY <2>1 DEF StandsInv, AnsweredInv, Shelf!NoTurn
    <2> QED BY <1>2, <2>1, <2>2, <2>3, QuietSteps DEF Uploading
  <1>6. CASE Doors!Touch(r) /\ UNCHANGED <<file, turn>>
    <2>1. /\ pc[r] = "touch"
          /\ \/ pc'[r] = "in" /\ who'[r] = who[r]
             \/ pc'[r] = "out" /\ answer'[r] = "fault"
      BY <1>3, <1>6 DEF Doors!Touch, Doors!Answers
    <2>2. FilesTypeOK' /\ Alone(r)
      BY <1>2, <1>3, <1>6, <2>1 DEF Doors!Touch, Doors!Answers, Alone
    <2>3. StandsInv(r)' /\ AnsweredInv(r)'
      BY <1>3, <1>6, <2>1 DEF StandsInv, AnsweredInv
    <2> QED BY <1>2, <2>1, <2>2, <2>3, QuietSteps DEF Uploading
  <1> QED BY <1>1, <1>4, <1>5, <1>6

LEMMA AdmitStep == ASSUME FilesInv, Admit PROVE FilesInv'
  <1>1. PICK r \in Requests : pc[r] = "in" /\ (Shelf!Goes(r, "chat") \/ Shelf!Answers(r, "refused"))
    BY DEF Admit
  <1>2. UNCHANGED <<rows, owner, expired, blobs, marks, key, file, turn>>
    BY DEF Admit, stored
  <1>3. StandsInv(r) /\ FilesTypeOK
    BY DEF FilesInv
  <1>4. \/ pc'[r] = "chat" /\ who'[r] = who[r]
        \/ pc'[r] = "out" /\ answer'[r] = "refused"
    BY <1>1, <1>3 DEF Shelf!Goes, Shelf!Answers, FilesTypeOK
  <1>5. FilesTypeOK' /\ Alone(r)
    BY <1>1, <1>2, <1>3 DEF Shelf!Goes, Shelf!Answers, FilesTypeOK, Alone
  <1>6. StandsInv(r)' /\ AnsweredInv(r)'
    BY <1>1, <1>2, <1>3, <1>4 DEF StandsInv, AnsweredInv
  <1> QED BY <1>1, <1>2, <1>4, <1>5, <1>6, QuietSteps DEF Uploading
-----------------------------------------------------------------------------
LEMMA Marks ==
  ASSUME FilesTypeOK, NEW g \in Files, NEW what, marks' = Shelf!Marked(g, what)
  PROVE  marks'[g] = marks[g] \cup {what}
  BY DEF FilesTypeOK, Shelf!Marked

\* Uploads.
LEMMA UploadStep ==
  ASSUME FilesInv, UNCHANGED key, NEW r \in Requests, Shelf!Upload(r) PROVE FilesInv'
  <1> USE DEF FilesTypeOK
  <1>1. PICK g \in Files : /\ owner[g] = NoUser
                           /\ owner' = [owner EXCEPT ![g] = who[r]]
                           /\ file' = [file EXCEPT ![r] = g]
    BY DEF Shelf!Upload
  <1>2. FilesTypeOK /\ StandsInv(r) /\ pc[r] = "in" /\ who[r] \in Users
    BY DEF FilesInv, StandsInv, Shelf!Upload
  <1>3. rows[g] = "none" /\ g \notin blobs
    BY <1>1 DEF FilesInv, UnusedInv
  <1>4. /\ pc' = [pc EXCEPT ![r] = "put"]
        /\ UNCHANGED <<rows, expired, blobs, marks, turn, who, answer>>
    BY DEF Shelf!Upload, Shelf!Goes
  <1>5. FilesTypeOK' /\ Alone(r) /\ AltersOnly(g)
    BY <1>1, <1>2, <1>4 DEF Alone, AltersOnly
  <1>6. Ages(g) /\ MayAlter(r, g) /\ BytesOf(r, g)
    BY <1>1, <1>2, <1>3, <1>4, AccessAssumption DEF Ages, MayAlter, BytesOf
  <1>7. StandsInv(r)' /\ AnsweredInv(r)'
    BY <1>1, <1>2, <1>3, <1>4 DEF StandsInv, AnsweredInv, OwnFile
  <1> QED BY <1>1, <1>2, <1>4, <1>5, <1>6, <1>7, FileSteps

LEMMA PutStep ==
  ASSUME FilesInv, UNCHANGED key, NEW r \in Requests, Shelf!Put(r) PROVE FilesInv'
  <1> DEFINE g == file[r]
  <1>1. /\ FilesTypeOK /\ StandsInv(r) /\ pc[r] = "put" /\ OwnFile(r) /\ who[r] \in Users
        /\ rows[g] = "none" /\ g \in Files
    BY DEF FilesInv, StandsInv, Shelf!Put, OwnFile
  <1>2. UNCHANGED <<rows, owner, expired, file, turn, who>>
    BY DEF Shelf!Put, Shelf!Goes, Shelf!Answers
  <1>3. /\ blobs' \in {blobs, blobs \cup {g}} /\ marks' \in {marks, Shelf!Marked(g, "disk")}
        /\ \/ pc' = [pc EXCEPT ![r] = "commit"] /\ answer' = answer /\ g \in blobs'
           \/ /\ pc' = [pc EXCEPT ![r] = "out"] /\ answer' = [answer EXCEPT ![r] = "fault"]
              /\ marks' = Shelf!Marked(g, "disk")
    BY DEF Shelf!Put, Shelf!Goes, Shelf!Answers
  <1>4. FilesTypeOK' /\ Alone(r) /\ AltersOnly(g)
    BY <1>1, <1>2, <1>3 DEF FilesTypeOK, Alone, AltersOnly, Shelf!Marked
  <1>5. Ages(g) /\ MayAlter(r, g) /\ BytesOf(r, g)
    BY <1>1, <1>2, <1>3, AccessAssumption
    DEF Ages, MayAlter, BytesOf, Shelf!Marked, OwnFile, FilesTypeOK
  <1>6. StandsInv(r)' /\ AnsweredInv(r)'
    BY <1>1, <1>2, <1>3 DEF StandsInv, AnsweredInv, OwnFile, FilesTypeOK
  <1> QED BY <1>1, <1>2, <1>4, <1>5, <1>6, FileSteps DEF Uploading

LEMMA CommitRowStep ==
  ASSUME FilesInv, UNCHANGED key, NEW r \in Requests, Shelf!CommitRow(r) PROVE FilesInv'
  <1> DEFINE g == file[r]
  <1>1. /\ FilesTypeOK /\ StandsInv(r) /\ pc[r] = "commit" /\ OwnFile(r) /\ who[r] \in Users
        /\ rows[g] = "none" /\ g \in blobs /\ g \in Files
    BY DEF FilesInv, StandsInv, Shelf!CommitRow, OwnFile
  <1>2. UNCHANGED <<owner, expired, blobs, file, turn, who>>
    BY DEF Shelf!CommitRow, Shelf!Goes, Shelf!Answers
  <1>3. /\ rows' \in {rows, [rows EXCEPT ![g] = "live"]}
        /\ marks' \in {marks, Shelf!Marked(g, "answer lost")}
        /\ \/ /\ pc' = [pc EXCEPT ![r] = "out"] /\ answer' = [answer EXCEPT ![r] = "ok"]
              /\ rows' = [rows EXCEPT ![g] = "live"]
           \/ /\ pc' = [pc EXCEPT ![r] = "cleanup"] /\ answer' = answer
              /\ rows' = rows \/ marks' = Shelf!Marked(g, "answer lost")
    BY DEF Shelf!CommitRow, Shelf!Goes, Shelf!Answers
  <1>4. FilesTypeOK' /\ Alone(r) /\ AltersOnly(g)
    BY <1>1, <1>2, <1>3 DEF FilesTypeOK, Alone, AltersOnly, Shelf!Marked
  <1>5. Ages(g) /\ MayAlter(r, g) /\ BytesOf(r, g)
    <2>0. marks' = Shelf!Marked(g, "answer lost") => marks'[g] = marks[g] \cup {"answer lost"}
      BY <1>1, Marks
    <2>1. marks[g] \subseteq marks'[g]
      BY <1>3, <2>0
    <2>2. owner'[g] # NoUser
      BY <1>1, <1>2, AccessAssumption DEF OwnFile
    <2>3. rows'[g] = "live" \/ pc'[r] = "cleanup"
      BY <1>1, <1>3 DEF FilesTypeOK
    <2> QED BY <1>1, <1>2, <2>1, <2>2, <2>3 DEF Ages, MayAlter, BytesOf, Uploading
  <1>6. StandsInv(r)' /\ AnsweredInv(r)'
    <2>1. CASE pc' = [pc EXCEPT ![r] = "out"] /\ answer' = [answer EXCEPT ![r] = "ok"]
      BY <1>1, <1>2, <2>1 DEF StandsInv, AnsweredInv, FilesTypeOK
    <2>2. CASE /\ pc' = [pc EXCEPT ![r] = "cleanup"]
               /\ rows' = rows \/ marks' = Shelf!Marked(g, "answer lost")
      <3>1. rows'[g] # "live" \/ "answer lost" \in marks'[g]
        BY <1>1, <2>2, Marks
      <3>2. pc'[r] = "cleanup" /\ OwnFile(r)'
        BY <1>1, <1>2, <2>2 DEF OwnFile, FilesTypeOK
      <3> QED BY <1>1, <1>2, <3>1, <3>2 DEF StandsInv, AnsweredInv
    <2> QED BY <1>3, <2>1, <2>2
  <1> QED BY <1>1, <1>2, <1>4, <1>5, <1>6, FileSteps DEF Uploading

\* The bytes go, or the file is marked: after a failed upload, and when the file
\* is deleted.
LEMMA RemovalStep ==
  ASSUME FilesInv, UNCHANGED key, NEW r \in Requests, Shelf!CleanUp(r) \/ Shelf!Unlink(r)
  PROVE  FilesInv'
  <1> DEFINE g == file[r]
  <1>1. /\ FilesTypeOK /\ StandsInv(r) /\ pc[r] \in {"cleanup", "unlink"} /\ OwnFile(r)
        /\ who[r] \in Users /\ g \in Files
        /\ rows[g] # "live" \/ "answer lost" \in marks[g]
    BY DEF FilesInv, StandsInv, Shelf!CleanUp, Shelf!Unlink, OwnFile
  <1>2. UNCHANGED <<rows, owner, expired, file, turn, who>>
    BY DEF Shelf!CleanUp, Shelf!Unlink, Shelf!Goes, Shelf!Answers
  <1>3. /\ marks' \in {marks, Shelf!Marked(g, "disk")}
        /\ \/ blobs' = blobs \ {g}
           \/ blobs' = blobs /\ marks' = Shelf!Marked(g, "disk")
        /\ pc' = [pc EXCEPT ![r] = "out"] /\ answer'[r] \in {"fault", "ok"}
        /\ \E a : answer' = [answer EXCEPT ![r] = a]
    BY <1>1 DEF Shelf!CleanUp, Shelf!Unlink, Shelf!Answers, FilesTypeOK
  <1>4. FilesTypeOK' /\ Alone(r) /\ AltersOnly(g)
    BY <1>1, <1>2, <1>3 DEF FilesTypeOK, Alone, AltersOnly, Shelf!Marked
  <1>5. Ages(g) /\ MayAlter(r, g)
    BY <1>1, <1>2, <1>3, Marks DEF Ages, MayAlter
  <1>6. BytesOf(r, g)
    <2>1. owner'[g] # NoUser
      BY <1>1, <1>2, AccessAssumption DEF OwnFile
    <2>2. rows'[g] = "live" => "answer lost" \in marks'[g]
      BY <1>1, <1>2, <1>3, Marks
    <2>3. g \in blobs' => marks'[g] # {}
      BY <1>1, <1>3, Marks
    <2> QED BY <2>1, <2>2, <2>3 DEF BytesOf
  <1>7. StandsInv(r)' /\ AnsweredInv(r)'
    BY <1>1, <1>2, <1>3 DEF StandsInv, AnsweredInv, FilesTypeOK
  <1> QED BY <1>1, <1>2, <1>3, <1>4, <1>5, <1>6, <1>7, FileSteps DEF Uploading, FilesTypeOK

\* The routes that read and delete.
LEMMA EraseStep ==
  ASSUME FilesInv, UNCHANGED key, NEW r \in Requests, Shelf!Erase(r) PROVE FilesInv'
  <1> DEFINE g == file[r]
  <1>1. /\ FilesTypeOK /\ StandsInv(r) /\ pc[r] = "erase" /\ OwnFile(r) /\ who[r] \in Users
        /\ rows[g] # "none" /\ g \in Files
    BY DEF FilesInv, StandsInv, Shelf!Erase, OwnFile, Known
  <1>2. UNCHANGED <<owner, expired, blobs, file, turn, who>>
    BY DEF Shelf!Erase, Shelf!Goes, Shelf!Answers
  <1>3. CASE pc' = [pc EXCEPT ![r] = "out"] /\ rows' = rows /\ marks' = marks
    <2>1. answer' = [answer EXCEPT ![r] = "fault"]
      BY <1>1, <1>3 DEF Shelf!Erase, Shelf!Goes, Shelf!Answers, FilesTypeOK
    <2>2. FilesTypeOK' /\ Alone(r)
      BY <1>1, <1>2, <1>3, <2>1 DEF FilesTypeOK, Alone
    <2>3. StandsInv(r)' /\ AnsweredInv(r)'
      BY <1>1, <1>2, <1>3, <2>1 DEF StandsInv, AnsweredInv, FilesTypeOK
    <2>4. pc[r] \notin {"commit", "cleanup", "unlink"} /\ pc'[r] \notin Uploading
      BY <1>1, <1>3 DEF FilesTypeOK, Uploading
    <2> QED BY <1>2, <1>3, <2>2, <2>3, <2>4, QuietSteps
  <1>4. CASE /\ rows' = [rows EXCEPT ![g] = "deleted"]
             /\ \/ /\ pc' = [pc EXCEPT ![r] = "unlink"] /\ answer' = answer /\ marks' = marks
                \/ /\ pc' = [pc EXCEPT ![r] = "out"] /\ answer' = [answer EXCEPT ![r] = "fault"]
                   /\ marks' = Shelf!Marked(g, "answer lost")
    <2>1. FilesTypeOK' /\ Alone(r) /\ AltersOnly(g)
      BY <1>1, <1>2, <1>4 DEF FilesTypeOK, Alone, AltersOnly, Shelf!Marked
    <2>2. Ages(g) /\ MayAlter(r, g) /\ BytesOf(r, g)
      <3>0. marks' = Shelf!Marked(g, "answer lost") => marks'[g] = marks[g] \cup {"answer lost"}
        BY <1>1, Marks
      <3>1. /\ marks[g] \subseteq marks'[g]
            /\ marks' = Shelf!Marked(g, "answer lost") => marks'[g] # {}
        BY <1>4, <3>0
      <3>2. owner'[g] # NoUser
        BY <1>1, <1>2, AccessAssumption DEF OwnFile
      <3>3. /\ rows'[g] = "deleted"
            /\ pc'[r] = "unlink" \/ marks' = Shelf!Marked(g, "answer lost")
        BY <1>1, <1>4 DEF FilesTypeOK
      <3> QED BY <1>1, <1>2, <3>1, <3>2, <3>3 DEF Ages, MayAlter, BytesOf
    <2>3. StandsInv(r)' /\ AnsweredInv(r)'
      BY <1>1, <1>2, <1>4 DEF StandsInv, AnsweredInv, OwnFile, FilesTypeOK
    <2>4. pc'[r] \notin Uploading
      BY <1>1, <1>4 DEF FilesTypeOK, Uploading
    <2> QED BY <1>1, <2>1, <2>2, <2>3, <2>4, FileSteps
  <1> QED BY <1>3, <1>4 DEF Shelf!Erase, Shelf!Goes, Shelf!Answers

LEMMA FetchStep ==
  ASSUME FilesInv, UNCHANGED key, NEW r \in Requests, Shelf!Fetch(r) PROVE FilesInv'
  <1>1. FilesTypeOK /\ StandsInv(r) /\ pc[r] = "in" /\ who[r] \in Users
    BY DEF FilesInv, StandsInv, Shelf!Fetch
  <1>2. UNCHANGED <<rows, owner, expired, blobs, marks, who, turn>>
    BY DEF Shelf!Fetch, Shelf!Goes, Shelf!Answers, Shelf!stored
  <1>3. CASE Shelf!Answers(r, "not found") /\ UNCHANGED file
    <2> USE DEF FilesTypeOK, Shelf!Answers
    <2>1. pc'[r] = "out" /\ answer'[r] = "not found" /\ FilesTypeOK' /\ Alone(r)
      BY <1>1, <1>2, <1>3 DEF Alone
    <2> QED BY <1>1, <1>2, <2>1, QuietSteps DEF StandsInv, AnsweredInv, Uploading
  <1>4. CASE Shelf!Answers(r, "ok") /\ UNCHANGED file
    <2> USE DEF FilesTypeOK, Shelf!Answers
    <2>1. pc'[r] = "out" /\ answer'[r] = "ok" /\ FilesTypeOK' /\ Alone(r)
      BY <1>1, <1>2, <1>4 DEF Alone
    <2> QED BY <1>1, <1>2, <2>1, QuietSteps DEF StandsInv, AnsweredInv, Uploading
  <1>5. CASE \E f \in Files : /\ Shelf!Found(f, who[r]) /\ file' = [file EXCEPT ![r] = f]
                              /\ \E to \in {"read", "erase"} : Shelf!Goes(r, to)
    <2>1. /\ pc'[r] \in {"read", "erase"} /\ Shelf!Found(file'[r], who[r]) /\ file'[r] \in Files
          /\ FilesTypeOK' /\ Alone(r)
      BY <1>1, <1>2, <1>5 DEF Alone, FilesTypeOK, Shelf!Goes
    <2>2. OwnFile(r)' /\ Known(r)'
      BY <1>2, <2>1 DEF OwnFile, Known, Shelf!Found
    <2>3. StandsInv(r)' /\ AnsweredInv(r)'
      BY <1>1, <1>2, <2>1, <2>2 DEF StandsInv, AnsweredInv
    <2> QED BY <1>1, <1>2, <2>1, <2>3, QuietSteps DEF Uploading
  <1> QED BY <1>3, <1>4, <1>5 DEF Shelf!Fetch

LEMMA ReadStep ==
  ASSUME FilesInv, UNCHANGED key, NEW r \in Requests, Shelf!Read(r) PROVE FilesInv'
  <1>1. /\ FilesTypeOK /\ StandsInv(r) /\ pc[r] = "read" /\ who[r] \in Users
        /\ OwnFile(r) /\ Known(r)
    BY DEF FilesInv, StandsInv, Shelf!Read
  <1>2. UNCHANGED <<rows, owner, expired, blobs, marks, who, turn, file>>
    BY DEF Shelf!Read, Shelf!Answers, Shelf!stored
  <1>3. /\ pc'[r] = "out" /\ answer'[r] \in {"content", "error", "fault"}
        /\ answer'[r] = "error" => file[r] \notin blobs
        /\ FilesTypeOK' /\ Alone(r)
    BY <1>1, <1>2 DEF Shelf!Read, Shelf!Answers, FilesTypeOK, Alone
  <1>4. file[r] \notin blobs => Hopeless(r)
    BY <1>1 DEF FilesInv, BytesInv, Hopeless, Known, Shelf!Found
  <1>5. AnsweredInv(r)'
    BY <1>1, <1>2, <1>3, <1>4 DEF AnsweredInv, OwnFile, Known, Hopeless, Shelf!Found
  <1>6. StandsInv(r)'
    BY <1>1, <1>2, <1>3 DEF StandsInv
  <1> QED BY <1>1, <1>2, <1>3, <1>5, <1>6, QuietSteps DEF Uploading

\* The attachments.
LEMMA ClassifyStep ==
  ASSUME FilesInv, UNCHANGED key, NEW r \in Requests, Shelf!Classify(r) PROVE FilesInv'
  <1>1. FilesTypeOK /\ StandsInv(r) /\ pc[r] = "chat" /\ who[r] \in Users
    BY DEF FilesInv, StandsInv, Shelf!Classify
  <1>2. UNCHANGED <<rows, owner, expired, blobs, marks, who, answer>>
    BY DEF Shelf!Classify, Shelf!Goes, Shelf!stored
  <1>3. PICK fmt \in Shelf!Formats, kind \in {"image", "document"}, native \in BOOLEAN,
             src \in {"file", "inline", "remote", "undecodable"}, f \in Files :
          /\ src = "file" => rows[f] # "none"
          /\ file' = [file EXCEPT ![r] = IF src = "file" THEN f ELSE NoFile]
          /\ LET found == src = "file" /\ Shelf!Found(f, who[r])
                 then  == IF found THEN "fetched" ELSE Shelf!Unresolved(fmt, kind, src, native)
             IN /\ turn' = [turn EXCEPT ![r] =
                      [Shelf!NoTurn EXCEPT !.kind = kind, !.native = native, !.forwarded = then,
                                           !.source = IF src = "file" THEN "file" ELSE "other"]]
                /\ Shelf!Goes(r, IF found THEN "bytes"
                                 ELSE IF then = "rendering" THEN "render" ELSE "settle")
    BY DEF Shelf!Classify
  <1> DEFINE found == src = "file" /\ Shelf!Found(f, who[r])
             then  == IF found THEN "fetched" ELSE Shelf!Unresolved(fmt, kind, src, native)
  <1>4. /\ turn'[r].forwarded = then /\ turn'[r].source = (IF src = "file" THEN "file" ELSE "other")
        /\ turn'[r].stats = turn'[r].spent /\ DOMAIN turn'[r] = DOMAIN Shelf!NoTurn
    BY <1>1, <1>3 DEF FilesTypeOK, Shelf!NoTurn
  <1>5. pc'[r] = IF found THEN "bytes" ELSE IF then = "rendering" THEN "render" ELSE "settle"
    BY <1>1, <1>3 DEF FilesTypeOK, Shelf!Goes
  <1>6. FilesTypeOK' /\ Alone(r)
    BY <1>1, <1>2, <1>3, <1>4 DEF FilesTypeOK, Alone, Shelf!Goes
  <1>7. file'[r] = IF src = "file" THEN f ELSE NoFile
    BY <1>1, <1>3 DEF FilesTypeOK
  <1>8. StandsInv(r)'
    <2>1. CASE found
      BY <1>1, <1>2, <1>4, <1>5, <1>7, <2>1 DEF StandsInv, OwnFile, Known, Shelf!Found
    <2>2. CASE ~found /\ src = "file"
      <3>1. then \in {"block", "marker"}
        BY <2>2 DEF Shelf!Unresolved, Shelf!Source
      <3>2. pc'[r] = "settle" /\ Known(r)' /\ Hopeless(r)'
        BY <1>2, <1>3, <1>5, <1>7, <2>2, <3>1 DEF Known, Hopeless, Shelf!Found
      <3>3. TurnInv(r)'
        BY <1>4, <2>2, <3>1, <3>2 DEF TurnInv
      <3> QED BY <1>1, <1>2, <1>4, <3>2, <3>3 DEF StandsInv
    <2>3. CASE src # "file"
      <3>1. turn'[r].source = "other" /\ pc'[r] \in {"render", "settle"}
        BY <1>4, <1>5, <2>3
      <3> QED BY <1>1, <1>2, <1>4, <3>1 DEF StandsInv, TurnInv
    <2> QED BY <2>1, <2>2, <2>3
  <1>9. AnsweredInv(r)'
    BY <1>5 DEF AnsweredInv
  <1> QED BY <1>1, <1>2, <1>5, <1>6, <1>8, <1>9, QuietSteps DEF Uploading

\* What becomes of an attachment: its own fields change, and no file.
LEMMA TurnStep ==
  ASSUME FilesInv, UNCHANGED <<key, rows, owner, expired, blobs, marks, who, answer, file>>,
         NEW r \in Requests, pc[r] \in {"bytes", "render", "page"},
         NEW t, turn' = [turn EXCEPT ![r] = t], DOMAIN t = DOMAIN Shelf!NoTurn, t.stats = t.spent,
         t.source = turn[r].source,
         NEW to, pc' = [pc EXCEPT ![r] = to], to \in {"render", "page", "settle"},
         t.source = "file" =>
           Known(r) /\ OwnFile(r) /\ (t.forwarded = "block" => Hopeless(r))
  PROVE  FilesInv'
  <1>1. FilesTypeOK /\ StandsInv(r) /\ who[r] \in Users
    BY DEF FilesInv, StandsInv
  <1>2. pc'[r] = to /\ turn'[r] = t /\ FilesTypeOK' /\ Alone(r)
    BY <1>1 DEF FilesTypeOK, Alone
  <1>3. TurnInv(r)' /\ (t.source = "file" => OwnFile(r)')
    BY <1>2 DEF TurnInv, Known, OwnFile, Hopeless, Shelf!Found
  <1>4. StandsInv(r)' /\ AnsweredInv(r)'
    BY <1>1, <1>2, <1>3 DEF StandsInv, AnsweredInv
  <1> QED BY <1>1, <1>2, <1>4, QuietSteps DEF Uploading

LEMMA BytesStep ==
  ASSUME FilesInv, UNCHANGED key, NEW r \in Requests, Shelf!Bytes(r) PROVE FilesInv'
  <1>1. /\ FilesTypeOK /\ StandsInv(r) /\ pc[r] = "bytes" /\ OwnFile(r) /\ Known(r)
        /\ turn[r].stats = turn[r].spent /\ DOMAIN turn[r] = DOMAIN Shelf!NoTurn
    BY DEF FilesInv, StandsInv, Shelf!Bytes, FilesTypeOK
  <1>2. UNCHANGED <<key, rows, owner, expired, blobs, marks, who, answer, file>>
    BY DEF Shelf!Bytes, Shelf!Goes, Shelf!stored
  <1>3. file[r] \notin blobs => Hopeless(r)
    BY <1>1 DEF FilesInv, BytesInv, Hopeless, Known, Shelf!Found
  <1>4. PICK what \in {"inlined", "rendering", "block", "failed"}, to \in {"settle", "render"} :
          /\ Shelf!Forwards(r, what) /\ Shelf!Goes(r, to)
          /\ what = "block" => file[r] \notin blobs
    BY DEF Shelf!Bytes
  <1> DEFINE t == [turn[r] EXCEPT !.forwarded = what]
  <1>5. /\ DOMAIN t = DOMAIN Shelf!NoTurn /\ t.stats = t.spent /\ t.source = turn[r].source
        /\ t.forwarded = what
    BY <1>1 DEF Shelf!NoTurn
  <1>6. turn' = [turn EXCEPT ![r] = t] /\ pc' = [pc EXCEPT ![r] = to]
    BY <1>1, <1>4 DEF Shelf!Forwards, Shelf!Goes, FilesTypeOK
  <1> HIDE DEF t
  <1> QED BY <1>1, <1>2, <1>3, <1>4, <1>5, <1>6, TurnStep

LEMMA ExtractStep ==
  ASSUME FilesInv, UNCHANGED key, NEW r \in Requests, Shelf!Extract(r) \/ Shelf!LookAtImage(r)
  PROVE  FilesInv'
  <1>1. /\ FilesTypeOK /\ StandsInv(r) /\ pc[r] = "render"
        /\ turn[r].source = "file" => OwnFile(r) /\ Known(r)
        /\ turn[r].forwarded = "block" /\ turn[r].source = "file" => Hopeless(r)
        /\ turn[r].stats = turn[r].spent /\ DOMAIN turn[r] = DOMAIN Shelf!NoTurn
    BY DEF FilesInv, StandsInv, TurnInv, Shelf!Extract, Shelf!LookAtImage, FilesTypeOK
  <1>2. UNCHANGED <<key, rows, owner, expired, blobs, marks, who, answer, file>>
    BY DEF Shelf!Extract, Shelf!LookAtImage, Shelf!Goes, Shelf!stored
  <1>3. ASSUME NEW what \in {"text", "marker", "failed"}, Shelf!Forwards(r, what),
               Shelf!Goes(r, "settle")
        PROVE  FilesInv'
    <2> DEFINE t == [turn[r] EXCEPT !.forwarded = what]
    <2>1. /\ DOMAIN t = DOMAIN Shelf!NoTurn /\ t.stats = t.spent /\ t.source = turn[r].source
          /\ t.forwarded = what
      BY <1>1 DEF Shelf!NoTurn
    <2>2. turn' = [turn EXCEPT ![r] = t] /\ pc' = [pc EXCEPT ![r] = "settle"]
      BY <1>1, <1>3 DEF Shelf!Forwards, Shelf!Goes, FilesTypeOK
    <2> HIDE DEF t
    <2> QED BY <1>1, <1>2, <2>1, <2>2, TurnStep
  <1>4. ASSUME NEW n, turn' = [turn EXCEPT ![r].left = n], Shelf!Goes(r, "page")
        PROVE  FilesInv'
    <2> DEFINE t == [turn[r] EXCEPT !.left = n]
    <2>1. /\ DOMAIN t = DOMAIN Shelf!NoTurn /\ t.stats = t.spent /\ t.source = turn[r].source
          /\ t.forwarded = turn[r].forwarded
      BY <1>1 DEF Shelf!NoTurn
    <2>2. turn' = [turn EXCEPT ![r] = t] /\ pc' = [pc EXCEPT ![r] = "page"]
      BY <1>1, <1>4 DEF Shelf!Goes, FilesTypeOK
    <2> HIDE DEF t
    <2> QED BY <1>1, <1>2, <2>1, <2>2, TurnStep
  <1> QED BY <1>3, <1>4 DEF Shelf!Extract, Shelf!LookAtImage

LEMMA PageStep ==
  ASSUME FilesInv, UNCHANGED key, NEW r \in Requests, Shelf!Page(r) PROVE FilesInv'
  <1>1. /\ FilesTypeOK /\ StandsInv(r) /\ pc[r] = "page"
        /\ turn[r].source = "file" => OwnFile(r) /\ Known(r)
        /\ turn[r].forwarded = "block" /\ turn[r].source = "file" => Hopeless(r)
        /\ turn[r].stats = turn[r].spent /\ DOMAIN turn[r] = DOMAIN Shelf!NoTurn
    BY DEF FilesInv, StandsInv, TurnInv, Shelf!Page, FilesTypeOK
  <1>2. UNCHANGED <<key, rows, owner, expired, blobs, marks, who, answer, file>>
    BY DEF Shelf!Page, Shelf!Goes, Shelf!stored
  <1>3. PICK look \in Shelf!Looks :
          /\ LET left == turn[r].left - 1
                 then == IF look.said \/ look.read THEN "text" ELSE turn[r].forwarded
             IN turn' = [turn EXCEPT ![r].stats = @ + look.used, ![r].spent = @ + look.used,
                  ![r].left = IF look.raised THEN 0 ELSE left,
                  ![r].forwarded = IF look.raised THEN "failed"
                                   ELSE IF left = 0 /\ then = "rendering" THEN "marker" ELSE then]
          /\ Shelf!Goes(r, IF look.raised \/ turn[r].left = 1 THEN "settle" ELSE "page")
    BY DEF Shelf!Page, Shelf!Counted
  <1> DEFINE left == turn[r].left - 1
             then == IF look.said \/ look.read THEN "text" ELSE turn[r].forwarded
             what == IF look.raised THEN "failed"
                     ELSE IF left = 0 /\ then = "rendering" THEN "marker" ELSE then
             to   == IF look.raised \/ turn[r].left = 1 THEN "settle" ELSE "page"
             t    == [turn[r] EXCEPT !.stats = @ + look.used, !.spent = @ + look.used,
                        !.left = IF look.raised THEN 0 ELSE left, !.forwarded = what]
  <1>4. what \in {"text", "failed", "marker", turn[r].forwarded} /\ to \in {"settle", "page"}
    OBVIOUS
  <1>5. /\ DOMAIN t = DOMAIN Shelf!NoTurn /\ t.stats = t.spent /\ t.source = turn[r].source
        /\ t.forwarded = what
    BY <1>1 DEF Shelf!NoTurn
  <1>6. turn' = [turn EXCEPT ![r] = t] /\ pc' = [pc EXCEPT ![r] = to]
    BY <1>1, <1>3 DEF Shelf!Goes, FilesTypeOK
  <1> HIDE DEF t, what, to
  <1> QED BY <1>1, <1>2, <1>4, <1>5, <1>6, TurnStep

\* The requests that are only answered.
LEMMA AnswerStep ==
  ASSUME FilesInv, UNCHANGED key, NEW r \in Requests,
         Shelf!RefuseUpload(r) \/ Shelf!Settle(r) \/ Shelf!PlainChat(r)
  PROVE  FilesInv'
  <1>1. /\ FilesTypeOK /\ StandsInv(r) /\ AnsweredInv(r)
        /\ pc[r] \in {"in", "settle", "chat"} /\ who[r] \in Users
        /\ pc[r] = "settle" => TurnInv(r)
    BY DEF FilesInv, StandsInv, Shelf!RefuseUpload, Shelf!Settle, Shelf!PlainChat
  <1>2. UNCHANGED <<rows, owner, expired, blobs, marks, who, turn, file>>
    BY DEF Shelf!RefuseUpload, Shelf!Settle, Shelf!PlainChat, Shelf!Answers, Shelf!stored
  <1>3. PICK a \in {"refused", "answered", "fault", "ok"} :
          Shelf!Answers(r, a) /\ (a = "answered" => pc[r] = "settle")
    BY DEF Shelf!RefuseUpload, Shelf!Settle, Shelf!PlainChat
  <1>4. pc'[r] = "out" /\ answer'[r] = a /\ FilesTypeOK' /\ Alone(r)
    BY <1>1, <1>2, <1>3 DEF Shelf!Answers, FilesTypeOK, Alone
  <1>5. TurnInv(r) => TurnInv(r)'
    BY <1>2 DEF TurnInv, Known, OwnFile, Hopeless, Shelf!Found
  <1>6. AnsweredInv(r)'
    BY <1>1, <1>2, <1>3, <1>4, <1>5 DEF AnsweredInv
  <1>7. StandsInv(r)'
    BY <1>1, <1>2, <1>4 DEF StandsInv
  <1> QED BY <1>1, <1>2, <1>4, <1>6, <1>7, QuietSteps DEF Uploading

\* What the dead process waited for happens or does not, and the file is marked.
LEMMA DiesStep ==
  ASSUME FilesInv, UNCHANGED key, NEW r \in Requests, Shelf!Dies(r) PROVE FilesInv'
  <1> DEFINE g == file[r]
  <1>1. /\ FilesTypeOK /\ StandsInv(r) /\ OwnFile(r) /\ who[r] \in Users /\ g \in Files
        /\ pc[r] \in {"put", "commit", "cleanup", "erase", "unlink"}
    BY DEF FilesInv, StandsInv, OwnFile, Shelf!Dies
  <1>2. UNCHANGED <<owner, expired, who, turn, file>>
    BY DEF Shelf!Dies, Shelf!Answers
  <1>3. /\ pc' = [pc EXCEPT ![r] = "out"] /\ answer' = [answer EXCEPT ![r] = "fault"]
        /\ marks' = Shelf!Marked(g, "died")
    BY DEF Shelf!Dies, Shelf!Answers
  <1>4. marks'[g] = marks[g] \cup {"died"}
    BY <1>1, <1>3, Marks
  <1>5. \/ pc[r] = "put"    /\ blobs' \in {blobs, blobs \cup {g}} /\ rows' = rows
        \/ pc[r] = "commit" /\ rows' \in {rows, [rows EXCEPT ![g] = "live"]} /\ blobs' = blobs
        \/ pc[r] = "erase"  /\ rows' \in {rows, [rows EXCEPT ![g] = "deleted"]} /\ blobs' = blobs
        \/ /\ pc[r] \in {"cleanup", "unlink"}
           /\ blobs' \in {blobs, blobs \ {g}} /\ rows' = rows
    BY <1>1 DEF Shelf!Dies
  <1>6. FilesTypeOK' /\ Alone(r) /\ AltersOnly(g)
    BY <1>1, <1>2, <1>3, <1>5 DEF FilesTypeOK, Alone, AltersOnly, Shelf!Marked
  <1>7. Ages(g)
    <2>1. rows[g] \in {"none", "live", "deleted"} /\ (pc[r] = "commit" => rows[g] = "none")
      BY <1>1 DEF StandsInv, FilesTypeOK
    <2>2. rows[g] # "none" => rows'[g] \in {rows[g], "deleted"}
      BY <1>1, <1>5, <2>1 DEF FilesTypeOK
    <2> QED BY <1>2, <1>4, <2>1, <2>2 DEF Ages
  <1>8. MayAlter(r, g)
    BY <1>1, <1>5 DEF MayAlter, Uploading, StandsInv, Known
  <1>9. BytesOf(r, g)
    <2>1. rows'[g] = "live" => g \in blobs' \/ "answer lost" \in marks[g]
      <3>1. rows[g] = "live" => g \in blobs \/ "answer lost" \in marks[g]
        BY <1>1 DEF FilesInv, BytesInv
      <3>2. /\ pc[r] = "commit" => g \in blobs
            /\ pc[r] = "cleanup" => rows[g] # "live" \/ "answer lost" \in marks[g]
            /\ pc[r] = "unlink" => rows[g] = "deleted"
        BY <1>1 DEF StandsInv
      <3> QED BY <1>1, <1>5, <3>1, <3>2 DEF FilesTypeOK
    <2>2. owner'[g] # NoUser
      BY <1>1, <1>2, AccessAssumption DEF OwnFile
    <2> QED BY <1>4, <2>1, <2>2 DEF BytesOf
  <1>10. pc'[r] = "out" /\ answer'[r] = "fault" /\ StandsInv(r)' /\ AnsweredInv(r)'
    BY <1>1, <1>2, <1>3 DEF StandsInv, AnsweredInv, FilesTypeOK
  <1> QED BY <1>1, <1>6, <1>7, <1>8, <1>9, <1>10, FileSteps DEF Uploading

LEMMA StillStep ==
  ASSUME FilesInv, UNCHANGED <<rows, owner, blobs, marks, asked>>, expired \subseteq expired'
  PROVE  FilesInv'
  <1>1. UNCHANGED <<pc, who, key, answer, file, turn>>
    BY DEF asked
  <1>2. FilesTypeOK' /\ UnusedInv' /\ UploaderInv' /\ BytesInv'
    <2>1. FilesTypeOK'
      BY <1>1 DEF FilesInv, FilesTypeOK
    <2>2. UnusedInv'
      BY DEF FilesInv, UnusedInv
    <2>3. UploaderInv'
      BY <1>1 DEF FilesInv, UploaderInv
    <2>4. BytesInv'
      BY <1>1, Zenon DEF FilesInv, BytesInv
    <2> QED BY <2>1, <2>2, <2>3, <2>4
  <1>3. ASSUME NEW r \in Requests PROVE StandsInv(r)' /\ AnsweredInv(r)'
    <2>1. Hopeless(r) => Hopeless(r)'
      BY <1>1 DEF Hopeless, Shelf!Found
    <2>2. (OwnFile(r) <=> OwnFile(r)') /\ (Known(r) <=> Known(r)') /\ (TurnInv(r) => TurnInv(r)')
      BY <1>1, <2>1 DEF TurnInv, OwnFile, Known
    <2> QED BY <1>1, <2>1, <2>2 DEF FilesInv, StandsInv, AnsweredInv
  <1> QED BY <1>2, <1>3 DEF FilesInv

LEMMA FilesStep == ASSUME KeysInv, FilesInv, [Next]_vars PROVE FilesInv'
  <1>1. CASE UseFiles
    <2>1. UNCHANGED key
      BY <1>1 DEF UseFiles
    <2>2. CASE Shelf!Expire
      BY <1>1, <2>2, StillStep DEF Shelf!Expire, Shelf!asked, UseFiles, asked
    <2>3. ASSUME NEW r \in Requests,
                 \/ Shelf!RefuseUpload(r) \/ Shelf!Upload(r) \/ Shelf!Put(r) \/ Shelf!CommitRow(r)
                 \/ Shelf!CleanUp(r) \/ Shelf!Fetch(r) \/ Shelf!Read(r) \/ Shelf!Erase(r)
                 \/ Shelf!Unlink(r)
          PROVE  FilesInv'
      BY <2>1, <2>3, AnswerStep, UploadStep, PutStep, CommitRowStep, RemovalStep, FetchStep,
         ReadStep, EraseStep
    <2>4. ASSUME NEW r \in Requests,
                 \/ Shelf!Classify(r) \/ Shelf!Bytes(r) \/ Shelf!Extract(r) \/ Shelf!LookAtImage(r)
                 \/ Shelf!Page(r) \/ Shelf!Settle(r) \/ Shelf!PlainChat(r) \/ Shelf!Dies(r)
          PROVE  FilesInv'
      BY <2>1, <2>4, ClassifyStep, BytesStep, ExtractStep, PageStep, AnswerStep, DiesStep
    <2> QED BY <1>1, <2>2, <2>3, <2>4 DEF UseFiles, Shelf!Next
  <1>2. CASE Administer \/ Tick \/ UNCHANGED vars
    <2>1. UNCHANGED <<rows, owner, expired, blobs, marks, asked>>
      BY <1>2
      DEF Administer, Tick, vars, stored, asked, Doors!Administer, Doors!KeyAges, Doors!CreateKey,
          Doors!BootstrapFirstKey, Doors!UpdateKey, Doors!DeleteKey, Doors!DeleteUser,
          Doors!RevokeKeys, Doors!CreateUser, Doors!Commit, Doors!CommitFails, Doors!Begin, Doors!asked
    <2> QED BY <2>1, StillStep
  <1> QED BY <1>1, <1>2, EntersStep, AdmitStep DEF Next

LEMMA FilesHold == Spec => []FilesInv
  <1>1. Init => KeysInv
    BY DEF Init, Doors!Init, KeysInv, KeysFollowUsers, Doors!KeysFollowUsers, OpInv, RevokesAll, Doors!Idle
  <1>2. ASSUME Init PROVE FilesInv
    <2>1. /\ Shelf!Init /\ key = [r \in Requests |-> NoUser]
      BY <1>2 DEF Init, Doors!Init
    <2>2. FilesTypeOK
      BY <2>1 DEF Shelf!Init, FilesTypeOK
    <2>3. ASSUME NEW r \in Requests PROVE StandsInv(r) /\ AnsweredInv(r)
      BY <2>1 DEF Shelf!Init, StandsInv, AnsweredInv, Shelf!NoTurn
    <2> QED BY <2>1, <2>2, <2>3
        DEF Shelf!Init, FilesInv, UnusedInv, UploaderInv, BytesInv
  <1> QED BY <1>1, <1>2, KeysStep, FilesStep, PTL DEF Spec

\* Between the two stores no upload, download or deletion, and no fault or death
\* between their steps, leaves bytes that nobody has, or a row that has lost its
\* bytes, but for a cause (routes/files.py, file_store.py).
THEOREM StoredReachable == Spec => []StoredIsReachable
  <1>1. FilesInv => StoredIsReachable
    <2>1. SUFFICES ASSUME FilesInv PROVE Shelf!StoredIsReachable
      BY DEF StoredIsReachable
    <2>2. ASSUME NEW u \in Users, NEW f \in Shelf!Listed(u)
          PROVE  f \in blobs \/ "answer lost" \in marks[f]
      BY <2>1, <2>2 DEF FilesInv, BytesInv, Shelf!Listed
    <2>3. ASSUME NEW f \in blobs PROVE rows[f] = "live" \/ Shelf!WorkedOn(f) \/ marks[f] # {}
      BY <2>1, <2>3 DEF FilesInv, BytesInv, Shelf!WorkedOn
    <2> QED BY <2>2, <2>3 DEF Shelf!StoredIsReachable
  <1> QED BY <1>1, FilesHold, PTL

\* A request reads and forwards its own user's files only, loses an attachment
\* only with its file, and is billed every look at it (content_normalizer.py).
THEOREM AttachmentsDo == Spec => []AttachmentsArrive
  <1>1. FilesInv => AttachmentsArrive
    <2>1. SUFFICES ASSUME FilesInv PROVE Shelf!OwnFilesArrive /\ Shelf!VisionIsBilled
      BY DEF AttachmentsArrive
    <2>2. ASSUME NEW r \in Requests, pc[r] = "out"
          PROVE  /\ answer[r] = "content" => OwnFile(r)
                 /\ answer[r] = "error" => Hopeless(r)
                 /\ answer[r] = "answered" => TurnInv(r)
                 /\ turn[r].stats = turn[r].spent
      BY <2>1, <2>2 DEF FilesInv, AnsweredInv, StandsInv
    <2> QED BY <2>2 DEF Shelf!OwnFilesArrive, Shelf!VisionIsBilled, OwnFile, Hopeless, TurnInv
  <1> QED BY <1>1, FilesHold, PTL

-----------------------------------------------------------------------------
(***************************************************************************)
(* The rate limit.                                                         *)
(***************************************************************************)

\* A deque is the end of what was accepted, without instants out of the window.
Trails(ts, acc) ==
  /\ ts \in Seq(Int) /\ Len(ts) <= Len(acc)
  /\ \A i \in 1..Len(ts) : ts[i] = acc[Len(acc) - Len(ts) + i]
  /\ \A i \in 1..(Len(acc) - Len(ts)) : acc[i] <= now - Window

\* Instants in the order in which they came.
Ordered(acc) ==
  /\ acc \in Seq(Int)
  /\ \A i \in 1..Len(acc) : acc[i] <= now
  /\ \A i, j \in 1..Len(acc) : i <= j => acc[i] <= acc[j]
Spaced(acc) == \A i \in DOMAIN acc : i > Rpm => acc[i] - acc[i - Rpm] >= Window

\* A promise is kept when the oldest request of a full deque has left the window.
Promising(p, ts) ==
  p # Limits!Free => p \in Int /\ (Len(ts) < Rpm \/ ts[1] + Window <= p)

OneLimit(u) ==
  /\ Ordered(accepted[u]) /\ Spaced(accepted[u])
  /\ Trails(requests[u], accepted[u]) /\ Len(requests[u]) <= Rpm
  /\ Promising(promised[u], requests[u])

LimitInv ==
  /\ now \in Int /\ DOMAIN requests = Users /\ DOMAIN accepted = Users /\ DOMAIN promised = Users
  /\ \A u \in Users : OneLimit(u)

\* A deque without its expired head is a tail of it.
LEMMA LiveIsTail ==
  ASSUME now \in Int, NEW ts \in Seq(Int)
  PROVE  \E k \in 0..Len(ts) :
           /\ Limits!Live(ts) = SubSeq(ts, k + 1, Len(ts))
           /\ \A j \in 1..k : ts[j] <= now - Window
           /\ k = 0 /\ ts # <<>> => ts[1] > now - Window
  <1> DEFINE n    == Len(ts)
             Old(i) == \A j \in 1..i : Limits!Expired(ts[j])
             dead == {i \in 0..n : Old(i)}
             c    == Cardinality(dead) - 1
  <1>1. n \in Nat /\ 0 \in dead /\ dead \in SUBSET (0..n)
    OBVIOUS
  <1>2. IsFiniteSet(dead) /\ Cardinality(dead) \in Nat
    <2> HIDE DEF dead
    <2>1. IsFiniteSet(0..n)
      BY <1>1, FS_Interval
    <2>2. IsFiniteSet(dead)
      BY <1>1, <2>1, FS_Subset
    <2> QED BY <2>2, FS_CardinalityType
  <1>3. ASSUME NEW i \in dead PROVE 0..i \subseteq dead
    BY <1>1
  <1>4. ASSUME NEW i \in dead PROVE i <= c
    <2> HIDE DEF dead
    <2>1. i \in Int /\ i >= 0
      BY <1>1
    <2>2. Cardinality(0..i) = i + 1
      BY <2>1, FS_Interval
    <2>3. Cardinality(0..i) <= Cardinality(dead)
      BY <1>2, <1>3, FS_Subset
    <2> QED BY <1>2, <2>1, <2>2, <2>3
  <1>5. c \in dead
    <2> HIDE DEF dead
    <2>1. SUFFICES ASSUME c \notin dead PROVE FALSE
      OBVIOUS
    <2>2. c \in Int /\ c >= 0
      BY <1>1, <1>2, <1>4
    <2>3. dead \subseteq 0..(c - 1)
      BY <1>1, <1>3, <1>4, <2>1, <2>2
    <2>4. Cardinality(0..(c - 1)) = c /\ IsFiniteSet(0..(c - 1))
      <3> HIDE DEF c
      <3>1. c - 1 \in Int
        BY <2>2
      <3> QED BY <2>2, <3>1, FS_Interval
    <2>5. Cardinality(dead) <= c
      BY <2>3, <2>4, FS_Subset
    <2> QED BY <1>2, <2>5
  <1> DEFINE k == CHOOSE i \in dead : \A j \in dead : j <= i
  <1>6. k \in dead /\ \A j \in dead : j <= k
    BY <1>4, <1>5
  <1>7. Limits!Live(ts) = SubSeq(ts, k + 1, n)
    BY DEF Limits!Live
  <1>8. k = 0 /\ ts # <<>> => ts[1] > now - Window
    <2>1. SUFFICES ASSUME ts # <<>>, k = 0, ~(ts[1] > now - Window) PROVE FALSE
      OBVIOUS
    <2>2. 1 \in 0..n /\ ts[1] \in Int
      BY <2>1
    <2>3. Old(1)
      BY <2>1, <2>2, AccessAssumption DEF Limits!Expired, Limits!Cutoff
    <2>4. 1 \in dead
      BY <2>2, <2>3
    <2>5. 1 <= k
      BY <1>6, <2>4
    <2> HIDE DEF k
    <2> QED BY <2>1, <2>5
  <1>9. \A j \in 1..k : ts[j] <= now - Window
    BY <1>6 DEF Limits!Expired, Limits!Cutoff
  <1> QED BY <1>6, <1>7, <1>8, <1>9

LEMMA LiveTrails ==
  ASSUME now \in Int, NEW acc \in Seq(Int), NEW ts, Trails(ts, acc)
  PROVE  /\ Trails(Limits!Live(ts), acc) /\ Len(Limits!Live(ts)) <= Len(ts)
         /\ ts # <<>> /\ ts[1] <= now - Window => Len(Limits!Live(ts)) < Len(ts)
  <1>1. ts \in Seq(Int) /\ Len(ts) \in Nat /\ Len(acc) \in Nat /\ Len(ts) <= Len(acc)
    BY DEF Trails
  <1>2. PICK k \in 0..Len(ts) :
           /\ Limits!Live(ts) = SubSeq(ts, k + 1, Len(ts))
           /\ \A j \in 1..k : ts[j] <= now - Window
           /\ k = 0 /\ ts # <<>> => ts[1] > now - Window
    BY <1>1, LiveIsTail
  <1> DEFINE live == Limits!Live(ts)
  <1>3. /\ live \in Seq(Int) /\ Len(live) = Len(ts) - k
        /\ \A i \in 1..(Len(ts) - k) : live[i] = ts[k + i]
    <2>1. \A i \in (k + 1)..Len(ts) : ts[i] \in Int
      BY <1>1, <1>2
    <2>2. /\ live \in Seq(Int)
          /\ Len(live) = IF k + 1 <= Len(ts) THEN Len(ts) - (k + 1) + 1 ELSE 0
          /\ \A i \in 1..(Len(ts) - (k + 1) + 1) : live[i] = ts[(k + 1) + i - 1]
      BY <1>1, <1>2, <2>1, SubSeqProperties
    <2> QED BY <1>1, <1>2, <2>2
  <1> HIDE DEF live
  <1>4. Trails(live, acc)
    <2>1. ASSUME NEW i \in 1..Len(live) PROVE live[i] = acc[Len(acc) - Len(live) + i]
      <3>1. live[i] = ts[k + i] /\ k + i \in 1..Len(ts)
        BY <1>1, <1>3
      <3>2. ts[k + i] = acc[Len(acc) - Len(ts) + (k + i)]
        BY <3>1 DEF Trails
      <3>3. Len(acc) - Len(ts) + (k + i) = Len(acc) - Len(live) + i
        BY <1>1, <1>3
      <3> QED BY <3>1, <3>2, <3>3
    <2>2. ASSUME NEW i \in 1..(Len(acc) - Len(live)) PROVE acc[i] <= now - Window
      <3>1. CASE i <= Len(acc) - Len(ts)
        BY <1>1, <3>1 DEF Trails
      <3>2. CASE i > Len(acc) - Len(ts)
        <4> DEFINE j == i - (Len(acc) - Len(ts))
        <4>1. j \in 1..k /\ j \in 1..Len(ts) /\ Len(acc) - Len(ts) + j = i
          BY <1>1, <1>3, <3>2
        <4>2. ts[j] = acc[i]
          BY <4>1 DEF Trails
        <4> QED BY <1>2, <4>1, <4>2
      <3> QED BY <1>1, <3>1, <3>2
    <2> QED BY <1>1, <1>3, <2>1, <2>2 DEF Trails
  <1>5. ts # <<>> /\ ts[1] <= now - Window => k # 0
    BY <1>1, <1>2, AccessAssumption
  <1>6. Len(live) <= Len(ts) /\ (k # 0 => Len(live) < Len(ts))
    <2>1. PICK n \in Nat : n = Len(ts)
      BY <1>1
    <2> QED BY <1>3, <2>1
  <1> QED BY <1>4, <1>5, <1>6, Zenon DEF live

\* Nor does the sweep take what is still in the window.
LEMMA SweptTrails ==
  ASSUME now \in Int, NEW u \in Users, Ordered(accepted[u]), Trails(requests[u], accepted[u])
  PROVE  /\ Limits!Swept(u) \in {<<>>, requests[u]}
         /\ Trails(Limits!Swept(u), accepted[u])
  <1> DEFINE ts == requests[u]  acc == accepted[u]
  <1>1. /\ ts \in Seq(Int) /\ Len(ts) \in Nat /\ Len(acc) \in Nat /\ Len(ts) <= Len(acc)
        /\ acc \in Seq(Int)
    BY DEF Trails, Ordered
  <1>2. CASE ts # <<>> /\ Limits!Stale(ts)
    <2>1. Limits!Swept(u) = <<>>
      BY <1>2 DEF Limits!Swept
    <2>2. Len(ts) >= 1 /\ ts[Len(ts)] <= now - Window
      BY <1>1, <1>2 DEF Limits!Stale, Limits!Expired, Limits!Cutoff
    <2>3. ts[Len(ts)] = acc[Len(acc)]
      <3>1. \A i \in 1..Len(ts) : ts[i] = acc[Len(acc) - Len(ts) + i]
        BY DEF Trails
      <3>2. Len(ts) \in 1..Len(ts) /\ Len(acc) - Len(ts) + Len(ts) = Len(acc)
        BY <1>1, <2>2
      <3> HIDE DEF ts, acc
      <3> QED BY <3>1, <3>2
    <2>4. ASSUME NEW i \in 1..Len(acc) PROVE acc[i] <= now - Window
      <3>1. acc[i] <= acc[Len(acc)] /\ acc[i] \in Int /\ acc[Len(acc)] \in Int
        BY <1>1, <2>2 DEF Ordered
      <3> QED BY <2>2, <2>3, <3>1, AccessAssumption
    <2>5. Trails(<<>>, acc)
      BY <1>1, <2>4 DEF Trails
    <2> QED BY <2>1, <2>5
  <1>3. CASE ~(ts # <<>> /\ Limits!Stale(ts))
    <2>1. Limits!Swept(u) = ts
      BY <1>3 DEF Limits!Swept
    <2> QED BY <2>1
  <1> QED BY <1>2, <1>3

\* The deque a call looks at.
LEMMA DequeTrails ==
  ASSUME now \in Int, NEW u \in Users, Ordered(accepted[u]), Trails(requests[u], accepted[u])
  PROVE  /\ Trails(Limits!Deque(u), accepted[u])
         /\ Len(Limits!Deque(u)) <= Len(requests[u])
         /\ requests[u] # <<>> /\ requests[u][1] <= now - Window
              => Len(Limits!Deque(u)) < Len(requests[u])
  <1> DEFINE acc == accepted[u]  ts == IF Limits!SweepDue THEN Limits!Swept(u) ELSE requests[u]
  <1>1. acc \in Seq(Int) /\ requests[u] \in Seq(Int)
    BY DEF Ordered, Trails
  <1>2. Trails(ts, acc) /\ ts \in {<<>>, requests[u]}
    BY SweptTrails
  <1>3. Limits!Deque(u) = Limits!Live(ts)
    BY DEF Limits!Deque
  <1> HIDE DEF ts
  <1>4. /\ Trails(Limits!Live(ts), acc) /\ Len(Limits!Live(ts)) <= Len(ts)
        /\ ts # <<>> /\ ts[1] <= now - Window => Len(Limits!Live(ts)) < Len(ts)
    BY <1>1, <1>2, LiveTrails
  <1>5. Limits!Live(ts) \in Seq(Int)
    BY <1>4 DEF Trails
  <1>6. CASE ts = requests[u]
    BY <1>3, <1>4, <1>6
  <1>7. CASE ts = <<>>
    <2>1. Len(Limits!Live(ts)) = 0
      BY <1>4, <1>5, <1>7
    <2>2. Len(requests[u]) \in Nat /\ (requests[u] # <<>> => Len(requests[u]) > 0)
      BY <1>1
    <2> QED BY <1>3, <1>4, <2>1, <2>2
  <1> QED BY <1>2, <1>6, <1>7

\* Rounding up to whole seconds promises no less than is left.
LEMMA RoundedUp ==
  ASSUME NEW y \in Int, NEW t \in Nat \ {0}
  PROVE  (-((-y) \div t)) * t \in Int /\ (-((-y) \div t)) * t >= y
  OBVIOUS

\* What one user's call leaves of it.
LEMMA AcceptedStep ==
  ASSUME now \in Int, NEW acc, NEW ts, Ordered(acc), Spaced(acc), Trails(ts, acc), Len(ts) < Rpm
  PROVE  /\ Ordered(Append(acc, now)) /\ Spaced(Append(acc, now))
         /\ Trails(Append(ts, now), Append(acc, now)) /\ Len(Append(ts, now)) <= Rpm
  <1> DEFINE n == Len(acc)  m == Len(ts)
  <1>1. /\ acc \in Seq(Int) /\ ts \in Seq(Int) /\ n \in Nat /\ m \in Nat /\ m <= n
        /\ Rpm \in Nat \ {0} /\ Window \in Nat \ {0}
    BY AccessAssumption DEF Ordered, Trails
  <1> DEFINE acc1 == Append(acc, now)  ts1 == Append(ts, now)
  <1>2. /\ acc1 \in Seq(Int) /\ Len(acc1) = n + 1 /\ acc1[n + 1] = now
        /\ \A i \in 1..n : acc1[i] = acc[i] /\ acc[i] \in Int
    BY <1>1
  <1>3. /\ ts1 \in Seq(Int) /\ Len(ts1) = m + 1 /\ ts1[m + 1] = now
        /\ \A i \in 1..m : ts1[i] = ts[i] /\ ts[i] \in Int
    BY <1>1
  <1> HIDE DEF acc1, ts1
  <1>4. Ordered(acc1)
    <2>1. \A i \in 1..n : acc[i] <= now
      BY DEF Ordered
    <2>2. \A i, j \in 1..n : i <= j => acc[i] <= acc[j]
      BY DEF Ordered
    <2>3. \A i \in 1..(n + 1) : i \in 1..n \/ i = n + 1
      BY <1>1
    <2>4. ASSUME NEW i \in 1..Len(acc1) PROVE acc1[i] <= now
      <3>1. CASE i = n + 1
        BY <1>2, <3>1
      <3>2. CASE i \in 1..n
        BY <1>2, <2>1, <3>2
      <3> QED BY <1>2, <2>3, <3>1, <3>2
    <2>5. ASSUME NEW i \in 1..Len(acc1), NEW j \in 1..Len(acc1), i <= j PROVE acc1[i] <= acc1[j]
      <3>1. CASE j = n + 1
        BY <1>2, <2>4, <3>1
      <3>2. CASE j \in 1..n
        <4>1. i \in 1..n
          BY <1>1, <1>2, <2>5, <3>2
        <4> QED BY <1>2, <2>2, <2>5, <3>2, <4>1
      <3> QED BY <1>2, <2>3, <3>1, <3>2
    <2> QED BY <1>2, <2>4, <2>5 DEF Ordered
  <1>5. Spaced(acc1)
    <2>0. DOMAIN acc1 = 1..(n + 1)
      BY <1>2
    <2>1. SUFFICES ASSUME NEW i \in 1..(n + 1), i > Rpm PROVE acc1[i] - acc1[i - Rpm] >= Window
      BY <2>0 DEF Spaced
    <2>2. CASE i = n + 1
      <3>1. i - Rpm \in 1..(n - m) /\ i - Rpm \in 1..n
        BY <1>1, <2>1, <2>2
      <3> DEFINE j == i - Rpm
      <3>2. acc[j] <= now - Window
        BY <3>1 DEF Trails
      <3>3. acc1[i] = now /\ acc1[j] = acc[j] /\ acc[j] \in Int
        BY <1>2, <2>2, <3>1
      <3> HIDE DEF j
      <3>4. acc1[i] - acc1[j] >= Window
        BY <1>1, <3>2, <3>3
      <3> QED BY <3>4 DEF j
    <2>3. CASE i \in 1..n
      <3>1. i - Rpm \in 1..n /\ i \in DOMAIN acc
        BY <1>1, <2>1, <2>3
      <3>2. acc[i] - acc[i - Rpm] >= Window
        BY <2>1, <3>1 DEF Spaced
      <3>3. acc1[i] = acc[i] /\ acc1[i - Rpm] = acc[i - Rpm]
        BY <1>2, <2>3, <3>1
      <3> QED BY <3>2, <3>3
    <2>4. i \in 1..n \/ i = n + 1
      BY <1>1
    <2> QED BY <2>2, <2>3, <2>4
  <1>6. Trails(ts1, acc1)
    <2>1. ASSUME NEW i \in 1..(m + 1) PROVE ts1[i] = acc1[(n + 1) - (m + 1) + i]
      <3>1. CASE i = m + 1
        BY <1>1, <1>2, <1>3, <3>1
      <3>2. CASE i \in 1..m
        <4>1. n - m + i \in 1..n /\ (n + 1) - (m + 1) + i = n - m + i
          BY <1>1, <3>2
        <4>2. ts[i] = acc[n - m + i]
          BY <3>2 DEF Trails
        <4> QED BY <1>2, <1>3, <3>2, <4>1, <4>2
      <3> QED BY <1>1, <3>1, <3>2
    <2>2. ASSUME NEW i \in 1..((n + 1) - (m + 1)) PROVE acc1[i] <= now - Window
      <3>1. i \in 1..(n - m) /\ i \in 1..n
        BY <1>1
      <3>2. acc[i] <= now - Window
        BY <3>1 DEF Trails
      <3> QED BY <1>2, <3>1, <3>2
    <2> QED BY <1>1, <1>2, <1>3, <2>1, <2>2 DEF Trails
  <1>7. Len(ts1) <= Rpm
    BY <1>1, <1>3
  <1> QED BY <1>4, <1>5, <1>6, <1>7 DEF acc1, ts1

\* A call of one user: its deque, and those the sweep empties.
LEMMA CheckStep == ASSUME LimitInv, NEW u \in Users, Limits!Check(u) PROVE LimitInv'
  <1> DEFINE ts == Limits!Deque(u)
  <1>1. now' = now /\ now \in Int /\ DOMAIN accepted = Users /\ DOMAIN promised = Users
    BY DEF Limits!Check, LimitInv
  <1>2. /\ DOMAIN requests' = Users /\ DOMAIN accepted' = Users /\ DOMAIN promised' = Users
        /\ \A v \in Users \ {u} :
             /\ accepted'[v] = accepted[v] /\ promised'[v] = promised[v]
             /\ requests'[v] \in {Limits!Swept(v), requests[v]}
    BY <1>1 DEF Limits!Check
  <1>3. ASSUME NEW v \in Users
        PROVE  /\ Ordered(accepted[v]) /\ Spaced(accepted[v])
               /\ Trails(requests[v], accepted[v]) /\ Len(requests[v]) <= Rpm
               /\ Promising(promised[v], requests[v])
    BY DEF LimitInv, OneLimit
  <1>0. ASSUME NEW v \in Users, Ordered(accepted'[v]), Spaced(accepted'[v]),
               Trails(requests'[v], accepted'[v]), Len(requests'[v]) <= Rpm,
               Promising(promised'[v], requests'[v])
        PROVE  OneLimit(v)'
    BY <1>0, <1>1 DEF OneLimit, Ordered, Spaced, Trails, Promising
  <1>4. ASSUME NEW v \in Users, v # u PROVE OneLimit(v)'
    <2>1. requests'[v] \in {<<>>, requests[v]} /\ Trails(requests'[v], accepted[v])
      BY <1>1, <1>2, <1>3, <1>4, SweptTrails
    <2>2. Promising(promised[v], <<>>)
      BY <1>3, AccessAssumption DEF Promising
    <2>3. Len(<<>>) <= Rpm
      BY AccessAssumption
    <2> QED BY <1>0, <1>2, <1>3, <1>4, <2>1, <2>2, <2>3
  <1>5. Trails(ts, accepted[u]) /\ Len(ts) <= Rpm
    <2>1. /\ Trails(ts, accepted[u]) /\ Len(ts) <= Len(requests[u]) /\ Len(requests[u]) <= Rpm
          /\ requests[u] \in Seq(Int)
      BY <1>1, <1>3, DequeTrails DEF Trails
    <2>2. Len(ts) \in Int /\ Len(requests[u]) \in Int
      BY <2>1 DEF Trails
    <2> HIDE DEF ts
    <2> QED BY <2>1, <2>2, AccessAssumption
  <1>6. ASSUME Len(ts) >= Rpm, requests'[u] = ts, UNCHANGED accepted,
               promised'[u] = now + Limits!RetryAfter(ts) * TicksPerSecond
        PROVE  OneLimit(u)'
    <2>1. ts \in Seq(Int) /\ ts # <<>> /\ ts[1] \in Int
      BY <1>5, <1>6, AccessAssumption DEF Trails
    <2> DEFINE y == ts[1] - Limits!Cutoff  w == Limits!RetryAfter(ts) * TicksPerSecond
    <2>2. y \in Int /\ y = ts[1] + Window - now
      BY <1>1, <2>1, AccessAssumption DEF Limits!Cutoff
    <2>3. w \in Int /\ w >= y
      BY <2>2, RoundedUp, AccessAssumption DEF Limits!RetryAfter
    <2> HIDE DEF ts, w, y
    <2>4. now + w \in Int /\ ts[1] + Window <= now + w
      BY <1>1, <2>1, <2>2, <2>3, AccessAssumption
    <2>5. Promising(promised'[u], ts)
      BY <1>6, <2>4 DEF Promising, w
    <2> QED BY <1>0, <1>3, <1>5, <1>6, <2>5
  <1>7. ASSUME Len(ts) < Rpm, requests'[u] = Append(ts, now),
               accepted'[u] = Append(accepted[u], now), promised'[u] = Limits!Free
        PROVE  OneLimit(u)'
    <2> HIDE DEF ts
    <2>1. /\ Ordered(accepted'[u]) /\ Spaced(accepted'[u])
          /\ Trails(requests'[u], accepted'[u]) /\ Len(requests'[u]) <= Rpm
      BY <1>1, <1>3, <1>5, <1>7, AcceptedStep
    <2>2. Promising(promised'[u], requests'[u])
      BY <1>7 DEF Promising
    <2> QED BY <1>0, <2>1, <2>2
  <1>8. \/ /\ Len(ts) >= Rpm /\ requests'[u] = ts /\ UNCHANGED accepted
           /\ promised'[u] = now + Limits!RetryAfter(ts) * TicksPerSecond
        \/ /\ Len(ts) < Rpm /\ requests'[u] = Append(ts, now)
           /\ accepted'[u] = Append(accepted[u], now) /\ promised'[u] = Limits!Free
    BY <1>1 DEF Limits!Check
  <1> QED BY <1>1, <1>2, <1>4, <1>6, <1>7, <1>8 DEF LimitInv

LEMMA LimitStep == ASSUME FilesInv, LimitInv, [Next]_vars PROVE LimitInv'
  <1>1. CASE UNCHANGED limiter
    BY <1>1 DEF limiter, LimitInv, OneLimit, Ordered, Spaced, Trails, Promising
  <1>2. CASE Limits!Tick
    <2>1. now \in Int /\ now' = now + 1 /\ UNCHANGED <<requests, accepted, promised>>
      BY <1>2 DEF Limits!Tick, LimitInv
    <2>2. ASSUME NEW u \in Users PROVE OneLimit(u)'
      <3>1. OneLimit(u) /\ accepted[u] \in Seq(Int) /\ Len(accepted[u]) \in Nat
        BY DEF LimitInv, OneLimit, Ordered
      <3>2. \A i \in 1..Len(accepted[u]) : accepted[u][i] \in Int
        BY <3>1
      <3>3. Ordered(accepted[u])'
        BY <2>1, <3>1, <3>2 DEF OneLimit, Ordered
      <3>4. requests[u] \in Seq(Int) /\ Len(requests[u]) \in Nat
        BY <3>1 DEF OneLimit, Trails
      <3>5. Trails(requests[u], accepted[u])'
        <4>1. ASSUME NEW i \in 1..(Len(accepted[u]) - Len(requests[u]))
              PROVE  accepted[u][i] <= (now + 1) - Window
          <5>1. i \in 1..Len(accepted[u]) /\ accepted[u][i] <= now - Window
            BY <3>1, <3>4 DEF OneLimit, Trails
          <5>2. accepted[u][i] \in Int
            BY <3>2, <5>1
          <5> QED BY <2>1, <5>1, <5>2, AccessAssumption
        <4> QED BY <2>1, <3>1, <4>1 DEF OneLimit, Trails
      <3> QED BY <2>1, <3>1, <3>3, <3>5 DEF OneLimit, Spaced, Promising
    <2> QED BY <2>1, <2>2 DEF LimitInv
  <1>3. CASE Admit
    <2>1. PICK r \in Requests :
            pc[r] = "in" /\ (UNCHANGED limiter \/ Limits!Check(who[r]))
      BY <1>3 DEF Admit
    <2>2. who[r] \in Users
      BY <2>1 DEF FilesInv, StandsInv
    <2> QED BY <1>1, <2>1, <2>2, CheckStep
  <1> QED BY <1>1, <1>2, <1>3 DEF Next, Enter, Administer, UseFiles, Tick, vars

\* Whatever keys a user's requests come with, and whenever the idle users are
\* swept, no window lets more than the limit of them through, and a user who
\* waits out Retry-After is let through (rate_limit.py).
THEOREM LimitDoesHold == Spec => []LimitHolds
  <1>1. Init => LimitInv
    <2>1. SUFFICES ASSUME Limits!Init PROVE LimitInv
      BY DEF Init
    <2>2. ASSUME NEW u \in Users PROVE OneLimit(u)
      BY <2>1, AccessAssumption
      DEF Limits!Init, OneLimit, Ordered, Spaced, Trails, Promising
    <2> QED BY <2>1, <2>2 DEF Limits!Init, LimitInv
  <1>2. LimitInv => LimitHolds
    <2>1. SUFFICES ASSUME LimitInv PROVE Limits!WindowHolds /\ Limits!RetryAfterIsEnough
      BY DEF LimitHolds
    <2>2. Limits!WindowHolds
      BY <2>1 DEF LimitInv, OneLimit, Spaced, Limits!WindowHolds
    <2>3. ASSUME NEW u \in Users, promised[u] # Limits!Free, now >= promised[u]
          PROVE  Len(Limits!Deque(u)) < Rpm
      <3> DEFINE ts == requests[u]  d == Limits!Deque(u)
      <3>1. /\ now \in Int /\ Ordered(accepted[u]) /\ Trails(ts, accepted[u]) /\ Len(ts) <= Rpm
            /\ promised[u] \in Int /\ (Len(ts) < Rpm \/ ts[1] + Window <= promised[u])
        BY <2>1, <2>3 DEF LimitInv, OneLimit, Promising
      <3>2. /\ Trails(d, accepted[u]) /\ Len(d) <= Len(ts)
            /\ ts # <<>> /\ ts[1] <= now - Window => Len(d) < Len(ts)
        BY <3>1, DequeTrails
      <3>3. ts \in Seq(Int) /\ d \in Seq(Int)
        BY <3>1, <3>2 DEF Trails
      <3> HIDE DEF ts, d
      <3>4. Len(ts) \in Nat /\ Len(d) \in Nat /\ (Len(ts) >= Rpm => ts # <<>> /\ ts[1] \in Int)
        BY <3>3, AccessAssumption
      <3>5. Len(d) < Rpm
        BY <2>3, <3>1, <3>2, <3>4, AccessAssumption
      <3> QED BY <3>5 DEF d
    <2> QED BY <2>2, <2>3 DEF Limits!RetryAfterIsEnough
  <1> QED BY <1>1, <1>2, LimitStep, FilesHold, PTL DEF Spec
=============================================================================
