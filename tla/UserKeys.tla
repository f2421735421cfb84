------------------------------ MODULE UserKeys ------------------------------
(***************************************************************************)
(* API keys and their users (routes/keys.py, routes/users.py, deps.py,      *)
(* bootstrap_service.py).                                                   *)
(*                                                                          *)
(* Administrators, and replicas that boot, read the rows they work on and   *)
(* commit later; between the two anything may be committed.  A commit       *)
(* writes the columns that differ from what was loaded, and those only.     *)
(* delete_user writes to the keys before it commits: until then these rows  *)
(* are locked, and others see them as they were (READ COMMITTED).           *)
(* A request looks its key up, and marks the key as used when the last mark *)
(* is five minutes old.  A user is deleted softly: the row stays, so no key *)
(* goes with it.                                                            *)
(***************************************************************************)
EXTENDS Naturals, FiniteSets

CONSTANTS Users, Keys, Requests, Actors,
          NoUser,
          Faults    \* subset of {"database", "disk", "died"}

VARIABLES
  user,      \* users: "none", "live", or "deleted" (deleted_at is set)
  holder,    \* api_keys.user_id, or NoUser when there is no such key
  active,    \* the keys with is_active
  lapsed,    \* the keys whose expires_at has passed
  fresh,     \* the keys whose last_used_at is recent
  op,        \* what each administrator or booting replica is about to commit
  excused,   \* history: keys that became active when their user was deleted, or
             \* about to be
  pc, who, key, answer   \* each request: where it is, its user, key and answer

rowsOfKeys == <<holder, active, lapsed, fresh>>
asked      == <<pc, who, key, answer>>
vars       == <<user, rowsOfKeys, op, excused, asked>>

Existing     == {k \in Keys : holder[k] # NoUser}
KeysOf(u)    == {k \in Keys : holder[k] = u}
Idle         == [kind |-> "idle"]
InUse(k)     == \/ \E a \in Actors : op[a] # Idle /\ "key" \in DOMAIN op[a] /\ op[a].key = k
                \/ \E r \in Requests : key[r] = k

\* The rows delete_user has written and not committed: other writers wait for them.
Revoking(a)  == op[a].kind = "revoked"
Locked(k)    == \E a \in Actors : Revoking(a) /\ k \in op[a].keys

\* The user is deleted, or a delete_user has read and revoked its keys already.
Leaving(u)   == user[u] = "deleted" \/ \E a \in Actors : Revoking(a) /\ op[a].user = u

\* An empty database, or one in which every user has a key that works.
Init ==
  /\ \/ user = [u \in Users |-> "none"] /\ holder = [k \in Keys |-> NoUser] /\ active = {}
     \/ /\ user = [u \in Users |-> "live"] /\ active = Keys
        /\ holder \in [Keys -> Users] /\ \A u \in Users : KeysOf(u) # {}
  /\ lapsed = {} /\ fresh \in {{}, active} /\ excused = {}
  /\ op = [a \in Actors |-> Idle]
  /\ pc = [r \in Requests |-> "out"] /\ who = [r \in Requests |-> NoUser]
  /\ key = [r \in Requests |-> NoUser] /\ answer = [r \in Requests |-> "none"]

-----------------------------------------------------------------------------
\* What an operation reads; its later commit is the second half.
Begin(a, what) ==
  /\ op[a] = Idle /\ op' = [op EXCEPT ![a] = what]
  /\ UNCHANGED <<user, rowsOfKeys, excused, asked>>

\* create_key: the user may be new (an unnamed key gets a user of its own), but
\* not deleted (404).
CreateKey(a) ==
  \E k \in Keys \ Existing, u \in Users :
    /\ ~InUse(k) /\ user[u] # "deleted"
    /\ Begin(a, [kind |-> "create", key |-> k, user |-> u, saw |-> user[u]])

\* bootstrap_first_api_key, when a process starts: only where there is no key.
BootstrapFirstKey(a) ==
  /\ Existing = {}
  /\ \E k \in Keys, u \in Users :
       /\ ~InUse(k) /\ user[u] = "none"
       /\ Begin(a, [kind |-> "create", key |-> k, user |-> u, saw |-> "none"])

\* update_key: a field that is not given keeps its value.
UpdateKey(a) ==
  \E k \in Existing, want \in {"enable", "disable", "renew"} :
    Begin(a, [kind |-> want, key |-> k, loaded |-> k \in active])

DeleteKey(a) == \E k \in Existing : Begin(a, [kind |-> "drop", key |-> k])

DeleteUser(a) == \E u \in Users :
  user[u] = "live" /\ Begin(a, [kind |-> "delete", user |-> u])

\* delete_user's UPDATE of the keys there are now, in the transaction it commits later.
RevokeKeys(a) ==
  /\ op[a].kind = "delete" /\ \A k \in KeysOf(op[a].user) : ~Locked(k)
  /\ op' = [op EXCEPT ![a] = [kind |-> "revoked", user |-> op[a].user, keys |-> KeysOf(op[a].user)]]
  /\ UNCHANGED <<user, rowsOfKeys, excused, asked>>

\* create_user, which revives a deleted one (and leaves its keys as they are).
CreateUser(a) == \E u \in Users :
  user[u] # "live" /\ Begin(a, [kind |-> "user", user |-> u, saw |-> user[u]])

-----------------------------------------------------------------------------
\* The new key (and the new user, unless another commit has just made it).
CreateKeyCommits(o) ==
  /\ o.kind = "create"
  /\ \/ o.saw = "none" /\ user[o.user] = "none" /\ user' = [user EXCEPT ![o.user] = "live"]
     \/ o.saw = "live" /\ UNCHANGED user
  /\ holder' = [holder EXCEPT ![o.key] = o.user]
  /\ active' = active \cup {o.key}
  /\ lapsed' = lapsed \ {o.key} /\ fresh' = fresh \ {o.key}
  /\ excused' = IF Leaving(o.user) THEN excused \cup {o.key} ELSE excused \ {o.key}

\* Variant: every column is written back as it was loaded.
UpdateKeyCommitsWhole(o) ==
  /\ o.kind \in {"enable", "disable", "renew"} /\ holder[o.key] # NoUser /\ ~Locked(o.key)
  /\ active' = IF o.kind = "enable" \/ (o.kind = "renew" /\ o.loaded)
               THEN active \cup {o.key} ELSE active \ {o.key}
  /\ lapsed' = IF o.kind = "renew" THEN lapsed \ {o.key} ELSE lapsed
  /\ excused' = IF o.kind = "enable" /\ Leaving(holder[o.key])
                THEN excused \cup {o.key} ELSE excused
  /\ UNCHANGED <<user, holder, fresh>>

\* Only a column whose value changed is written.
UpdateKeyCommits(o) ==
  /\ o.kind \in {"enable", "disable", "renew"} /\ holder[o.key] # NoUser /\ ~Locked(o.key)
  /\ active' = IF o.kind = "enable" /\ ~o.loaded THEN active \cup {o.key}
               ELSE IF o.kind = "disable" /\ o.loaded THEN active \ {o.key} ELSE active
  /\ lapsed' = IF o.kind = "renew" THEN lapsed \ {o.key} ELSE lapsed
  /\ excused' = IF active' # active /\ o.kind = "enable" /\ Leaving(holder[o.key])
                THEN excused \cup {o.key} ELSE excused
  /\ UNCHANGED <<user, holder, fresh>>

DeleteKeyCommits(o) ==
  /\ o.kind = "drop" /\ ~Locked(o.key)
  /\ holder' = [holder EXCEPT ![o.key] = NoUser]
  /\ active' = active \ {o.key} /\ lapsed' = lapsed \ {o.key} /\ fresh' = fresh \ {o.key}
  /\ excused' = excused \ {o.key}
  /\ UNCHANGED user

\* The keys the UPDATE found are disabled, not those created since.
DeleteUserCommits(o) ==
  /\ o.kind = "revoked"
  /\ user' = [user EXCEPT ![o.user] = "deleted"]
  /\ active' = active \ o.keys
  /\ excused' = excused \ o.keys
  /\ UNCHANGED <<holder, lapsed, fresh>>

CreateUserCommits(o) ==
  /\ o.kind = "user"
  /\ o.saw = "none" => user[o.user] = "none"
  /\ user' = [user EXCEPT ![o.user] = "live"]
  /\ UNCHANGED <<rowsOfKeys, excused>>

Written(o) == \/ CreateKeyCommits(o) \/ UpdateKeyCommits(o) \/ DeleteKeyCommits(o)
              \/ DeleteUserCommits(o) \/ CreateUserCommits(o)

Commit(a) ==
  /\ op[a] # Idle /\ Written(op[a])
  /\ op' = [op EXCEPT ![a] = Idle]
  /\ UNCHANGED asked

\* The commit fails and is rolled back: a row that was to be new exists by now,
\* the row to be changed is gone, or the database refuses.
CommitFails(a) ==
  /\ op[a] # Idle
  /\ \/ "database" \in Faults
     \/ "saw" \in DOMAIN op[a] /\ op[a].saw = "none" /\ user[op[a].user] # "none"
     \/ op[a].kind \in {"enable", "disable", "renew"} /\ holder[op[a].key] = NoUser
  /\ op' = [op EXCEPT ![a] = Idle]
  /\ UNCHANGED <<user, rowsOfKeys, excused, asked>>

\* Time passes: a key expires, or its last use is long ago.
KeyAges ==
  /\ \E k \in Existing :
       \/ lapsed' = lapsed \cup {k} /\ UNCHANGED fresh
       \/ fresh' = fresh \ {k} /\ UNCHANGED lapsed
  /\ UNCHANGED <<user, holder, active, op, excused, asked>>

-----------------------------------------------------------------------------
Answers(r, with) ==
  /\ pc' = [pc EXCEPT ![r] = "out"] /\ who' = [who EXCEPT ![r] = NoUser]
  /\ key' = [key EXCEPT ![r] = NoUser] /\ answer' = [answer EXCEPT ![r] = with]

Works(k) == k \in Existing /\ k \in active /\ k \notin lapsed

\* _verify_and_update_api_key: the row of the key is read once.
Lookup(r) ==
  /\ pc[r] = "out"
  /\ \E k \in Keys :
       \/ /\ Works(k)
          /\ pc' = [pc EXCEPT ![r] = IF k \in fresh THEN "in" ELSE "touch"]
          /\ who' = [who EXCEPT ![r] = holder[k]]
          /\ key' = [key EXCEPT ![r] = IF k \in fresh THEN NoUser ELSE k]
          /\ answer' = [answer EXCEPT ![r] = "none"]
       \/ ~Works(k) /\ Answers(r, "refused")
       \/ "database" \in Faults /\ Answers(r, "fault")
  /\ UNCHANGED <<user, rowsOfKeys, op, excused>>

\* last_used_at is committed.  If the commit fails it is rolled back, which
\* expires the loaded row: the next look at it fails the request.
Touch(r) ==
  /\ pc[r] = "touch"
  /\ \/ /\ holder[key[r]] # NoUser /\ ~Locked(key[r])
        /\ fresh' = fresh \cup {key[r]}
        /\ pc' = [pc EXCEPT ![r] = "in"] /\ key' = [key EXCEPT ![r] = NoUser]
        /\ UNCHANGED <<who, answer>>
     \/ /\ holder[key[r]] = NoUser \/ "database" \in Faults
        /\ Answers(r, "fault") /\ UNCHANGED fresh
  /\ UNCHANGED <<user, holder, active, lapsed, op, excused>>

\* The master key names its user, who need not exist.
MasterKey(r) ==
  /\ pc[r] = "out"
  /\ \E u \in Users : who' = [who EXCEPT ![r] = u]
  /\ pc' = [pc EXCEPT ![r] = "in"] /\ answer' = [answer EXCEPT ![r] = "none"]
  /\ UNCHANGED <<user, rowsOfKeys, op, excused, key>>

Administer == \E a \in Actors :
  \/ CreateKey(a) \/ BootstrapFirstKey(a) \/ UpdateKey(a) \/ DeleteKey(a)
  \/ DeleteUser(a) \/ RevokeKeys(a) \/ CreateUser(a) \/ Commit(a) \/ CommitFails(a)

Authenticate == \E r \in Requests : Lookup(r) \/ Touch(r) \/ MasterKey(r)

Next == Administer \/ KeyAges \/ Authenticate

Spec == Init /\ [][Next]_vars

-----------------------------------------------------------------------------
\* delete_user revokes the user's keys: one that works although its user is
\* deleted was enabled by an administrator afterwards, or committed by a
\* create_key that had read the user before and that delete_user's UPDATE of the
\* keys came too early for (its own commit may come later still).
KeysFollowUsers ==
  \A k \in Existing : k \in active /\ user[holder[k]] = "deleted" => k \in excused

=============================================================================
