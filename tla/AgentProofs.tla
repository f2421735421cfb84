---------------------------- MODULE AgentProofs ----------------------------
(***************************************************************************)
(* What holds of any agent of any-agent, whatever its framework, its tools *)
(* and its output types, and however many tasks call it or run it; of what *)
(* its model is sent and answers; and of any agent that is served,         *)
(* whatever its clients ask of it.                                         *)
(***************************************************************************)
EXTENDS AgentTools, A2AServing, AgentRun, ChatAdapters, LibraryLemmas, TLAPS

\* What a connection can be, and the calls a task can be in.
States == {"open", "closed", "left"}
Ops == [kind : {"idle", "create", "update", "cleanup"}, type : Types \cup {None},
        at : Nat, mine : SUBSET Nat]

ToolTypes ==
    /\ fw \in Frameworks /\ type \in Types \cup {None} /\ stickyType \in Types \cup {None}
    /\ op \in [Tasks -> Ops]
    /\ agent \in [made : BOOLEAN, type : Types \cup {None}, forced : BOOLEAN, conns : SUBSET Nat]
    /\ conns \in Seq(States) /\ clients \in Seq(Nat)
    /\ count \in Nat /\ lost \in SUBSET Nat
    /\ given \in BOOLEAN /\ stickyChoice \in BOOLEAN

\* What is noted of a connection is of one that was made; only a load has some
\* of its own.
Known ==
    /\ \A i \in 1..Len(clients) : clients[i] \in 1..Len(conns)
    /\ \A t \in Tasks : op[t].mine \subseteq 1..Len(conns)
    /\ \A t \in Tasks : op[t].kind \in {"idle", "cleanup"} => op[t].mine = {}

\* The one cleanup has left what it has passed.
OneCleanup ==
    "two cleanups" \notin seen =>
      /\ \A t, u \in Tasks : op[t].kind = "cleanup" /\ op[u].kind = "cleanup" => t = u
      /\ \A t \in Tasks : op[t].kind = "cleanup" =>
           /\ op[t].at \in 1..(Len(clients) + 1)
           /\ \A i \in 1..(op[t].at - 1) : conns[clients[i]] # "open"

\* There is one creation, and no other call before it has succeeded.
OneCreation ==
    /\ count = 0 => \A t \in Tasks : op[t].kind = "idle"
    /\ count = 0 => ~agent.made
    /\ ~agent.made =>
         /\ \A t \in Tasks : op[t].kind \in {"idle", "create"}
         /\ \A t, u \in Tasks : op[t].kind = "create" /\ op[u].kind = "create" => t = u
         /\ \A t \in Tasks : op[t].kind = "create" => op[t].type = type
         /\ stickyType = None
    /\ agent.made => \A t \in Tasks : op[t].kind # "create"

Reloads == {"agno", "llama_index"}

\* What the agent enforces, between the calls as well.
TypeFollows ==
    /\ stickyType # None => given
    /\ fw \notin Reloads => \A t \in Tasks : op[t].kind # "update"
    /\ agent.made /\ seen \cap {"load failed", "overlap"} = {} =>
         /\ \A t, u \in Tasks : op[t].kind = "update" /\ op[u].kind = "update" => t = u
         /\ \A t \in Tasks : op[t].kind = "update" => op[t].type = type
    /\ agent.made /\ fw # "langchain" /\ (\A t \in Tasks : op[t].kind # "update") =>
         \/ agent.type = type
         \/ fw \in {"agno", "openai"} /\ given /\ type = None
         \/ fw = "smolagents" /\ type = None
         \/ fw \in Reloads /\ seen \cap {"load failed", "overlap"} # {}

AgentInv == ToolTypes /\ Known /\ OneCleanup /\ OneCreation /\ TypeFollows /\ OpenIsReachable

-----------------------------------------------------------------------------
(***************************************************************************)
(* The calls of a task.                                                    *)
(***************************************************************************)

\* The elements of a set, listed.
LEMMA ListedElements ==
  ASSUME NEW S, IsFiniteSet(S)
  PROVE  SetToSeq(S) \in Seq(S) /\ \A x \in S : \E i \in 1..Len(SetToSeq(S)) : SetToSeq(S)[i] = x
  <1>1. PICK n \in Nat : n = Cardinality(S) /\ ExistsBijection(1..n, S)
    BY FS_CardinalityType
  <1>2. PICK b \in Bijection(1..n, S) : TRUE
    BY <1>1 DEF ExistsBijection
  <1>3. b \in [1..n -> S] /\ IsInjective(b)
    BY <1>2, Fun_IsBij, Zenon DEF Bijection, Injection, IsInjective
  <1>4. PICK s : s = SetToSeq(S)
    OBVIOUS
  <1>5. s \in [1..n -> S] /\ IsInjective(s)
    BY <1>1, <1>3, <1>4 DEF SetToSeq
  <1>6. s \in Injection(1..n, S)
    BY <1>5 DEF Injection, IsInjective
  <1>7. IsFiniteSet(1..n) /\ Cardinality(1..n) = n
    BY FS_Interval
  <1>8. s \in Surjection(1..n, S)
    BY <1>1, <1>6, <1>7, FS_Injection
  <1>9. \A x \in S : \E i \in 1..n : s[i] = x
    BY <1>8 DEF Surjection
  <1>10. s \in Seq(S) /\ Len(s) = n
    BY <1>5
  <1> QED BY <1>4, <1>9, <1>10

LEMMA UpToFinite == ASSUME NEW n \in Nat PROVE IsFiniteSet(1..n)
  <1>1. 1 \in Int /\ n \in Int
    OBVIOUS
  <1> QED BY <1>1, FS_Interval

\* A load notes a connection, or goes past a function.
LEMMA NotedIs ==
  ASSUME NEW x \in Ops, NEW n \in Nat
  PROVE  LET y == [x EXCEPT !.at = x.at + 1, !.mine = x.mine \cup {n}]
         IN y \in Ops /\ y.kind = x.kind /\ y.type = x.type /\ y.mine = x.mine \cup {n}
  <1>1. x.mine \cup {n} \in SUBSET Nat /\ x.at + 1 \in Nat
    BY DEF Ops
  <1>2. \A k \in Nat, m \in SUBSET Nat :
          LET y == [x EXCEPT !.at = k, !.mine = m]
          IN y \in Ops /\ y.kind = x.kind /\ y.type = x.type /\ y.mine = m
    BY DEF Ops
  <1> QED BY <1>1, <1>2

LEMMA IdleIs == Idle \in Ops /\ Idle.kind = "idle" /\ Idle.mine = {}
  BY DEF Idle, Ops

\* What the types say of each variable.
LEMMA Shapes ==
  ASSUME AgentInv
  PROVE  /\ conns \in Seq(States) /\ Len(conns) \in Nat /\ DOMAIN conns = 1..Len(conns)
         /\ clients \in Seq(Nat) /\ Len(clients) \in Nat /\ DOMAIN clients = 1..Len(clients)
         /\ \A i \in 1..Len(clients) : clients[i] \in 1..Len(conns)
         /\ \A u \in Tasks : op[u] \in Ops /\ op[u].mine \subseteq 1..Len(conns)
         /\ \A u \in Tasks : op[u].kind \in {"idle", "cleanup"} => op[u].mine = {}
         /\ op \in [Tasks -> Ops]
  BY DEF AgentInv, ToolTypes, Known

\* A list that may have grown by an element.
LEMMA Longer ==
  ASSUME NEW s \in Seq(States), NEW r, r = s \/ r = Append(s, "open")
  PROVE  /\ r \in Seq(States) /\ Len(r) \in {Len(s), Len(s) + 1} /\ DOMAIN r = 1..Len(r)
         /\ \A i \in 1..Len(s) : r[i] = s[i] /\ i \in 1..Len(r)
         /\ \A i \in 1..Len(r) : i \in 1..Len(s) \/ i = Len(s) + 1
  <1>1. CASE r = s
    BY <1>1
  <1>2. CASE r = Append(s, "open")
    <2>1. r \in Seq(States) /\ Len(r) = Len(s) + 1
      BY <1>2 DEF States
    <2>2. \A i \in 1..Len(s) : r[i] = s[i]
      BY <1>2
    <2> QED BY <2>1, <2>2
  <1> QED BY <1>1, <1>2

\* What comes before a place that is at most one past the end.
LEMMA Before ==
  ASSUME NEW n \in Nat, NEW k \in 1..(n + 1), NEW i \in 1..(k - 1)
  PROVE  i \in 1..n
  OBVIOUS

LEMMA StillBefore ==
  ASSUME NEW m \in Nat, NEW n \in Nat, n >= m, NEW k \in 1..(m + 1)
  PROVE  k \in 1..(n + 1)
  OBVIOUS

LEMMA PutConn ==
  ASSUME NEW s \in Seq(States), NEW d, NEW v \in States
  PROVE  LET r == [s EXCEPT ![d] = v]
         IN  /\ r \in Seq(States) /\ Len(r) = Len(s) /\ (d \in 1..Len(s) => r[d] = v)
             /\ \A c \in 1..Len(s) : c # d => r[c] = s[c]
  <1>1. PICK n \in Nat : n = Len(s)
    OBVIOUS
  <1>2. s \in [1..n -> States]
    BY <1>1
  <1>3. [s EXCEPT ![d] = v] \in [1..n -> States]
    BY <1>2
  <1>4. \A c \in 1..n : [s EXCEPT ![d] = v][c] = IF c = d THEN v ELSE s[c]
    BY <1>2
  <1> QED BY <1>1, <1>3, <1>4

LEMMA FirstPlace == ASSUME NEW n \in Nat PROVE 1 \in 1..(n + 1) /\ 1..(1 - 1) = {}
  OBVIOUS

LEMMA NextPlace ==
  ASSUME NEW n \in Nat, NEW k \in 1..(n + 1), k <= n, NEW y, y = k + 1
  PROVE  y \in 1..(n + 1) /\ k \in 1..n /\ \A i \in 1..(y - 1) : i = k \/ i \in 1..(k - 1)
  OBVIOUS

LEMMA PastTheEnd ==
  ASSUME NEW n \in Nat, NEW k \in 1..(n + 1), k > n, NEW i \in 1..n
  PROVE  i \in 1..(k - 1)
  OBVIOUS

\* A step of a load that goes on or fails: the agent is as it was.
LEMMA LoadStep ==
  ASSUME AgentInv, NEW t \in Tasks, Loading(t), op' \in [Tasks -> Ops],
         \A u \in Tasks : u # t => op'[u] = op[u],
         \/ /\ op'[t].kind = op[t].kind /\ op'[t].type = op[t].type /\ seen' = seen
            /\ lost' = lost
            /\ \A c \in 1..Len(conns') : c \in op[t].mine \/ c = Len(conns) + 1 => c \in op'[t].mine
         \/ /\ op'[t].kind = "idle" /\ seen' = seen \cup {"load failed"}
            /\ lost \subseteq lost' /\ lost' \in SUBSET Nat
            /\ \A c \in 1..Len(conns') : c \in op[t].mine \/ c = Len(conns) + 1 => c \in lost',
         op'[t].mine \subseteq 1..Len(conns'), op'[t].kind \in {"idle", "cleanup"} => op'[t].mine = {},
         conns' = conns \/ conns' = Append(conns, "open"),
         UNCHANGED <<config, type, stickyType, stickyChoice, agent, clients, count>>
  PROVE  AgentInv'
  <1>1. /\ conns' \in Seq(States) /\ DOMAIN conns' = 1..Len(conns')
        /\ \A i \in 1..Len(conns) : conns'[i] = conns[i] /\ i \in 1..Len(conns')
        /\ \A i \in 1..Len(conns') : i \in 1..Len(conns) \/ i = Len(conns) + 1
        /\ UNCHANGED <<fw, given>> /\ \A u \in Tasks : op'[u] \in Ops
    <2>1. PICK c : c = conns'
      OBVIOUS
    <2>4. conns \in Seq(States) /\ "open" \in States
      BY Shapes DEF States
    <2>5. c = conns \/ c = Append(conns, "open")
      BY <2>1
    <2>6. /\ c \in Seq(States) /\ DOMAIN c = 1..Len(c)
          /\ \A i \in 1..Len(conns) : c[i] = conns[i] /\ i \in 1..Len(c)
          /\ \A i \in 1..Len(c) : i \in 1..Len(conns) \/ i = Len(conns) + 1
      BY <2>4, <2>5, Longer
    <2>2. UNCHANGED <<fw, given>>
      BY DEF config
    <2>3. \A u \in Tasks : op'[u] \in Ops
      OBVIOUS
    <2> QED BY <2>1, <2>2, <2>3, <2>6
  <1>2. op[t].kind \in {"create", "update"}
    BY DEF Loading
  <1>3. ToolTypes'
    <2>1. lost' \in SUBSET Nat
      BY DEF AgentInv, ToolTypes
    <2> QED BY <1>1, <2>1 DEF AgentInv, ToolTypes
  <1>4. Known'
    <2>1. \A u \in Tasks : op'[u].mine \subseteq 1..Len(conns')
      <3>1. \A u \in Tasks : op[u].mine \subseteq 1..Len(conns)
        BY Shapes
      <3> QED BY <1>1, <3>1
    <2>2. \A i \in 1..Len(clients) : clients[i] \in 1..Len(conns')
      BY <1>1, Shapes
    <2>3. \A u \in Tasks : op'[u].kind \in {"idle", "cleanup"} => op'[u].mine = {}
      BY Shapes
    <2> QED BY <2>1, <2>2, <2>3 DEF Known
  <1>5. OneCleanup'
    <2> SUFFICES ASSUME "two cleanups" \notin seen' PROVE OneCleanup'
      BY DEF OneCleanup
    <2>1. /\ \A u, v \in Tasks : op[u].kind = "cleanup" /\ op[v].kind = "cleanup" => u = v
          /\ \A u \in Tasks : op[u].kind = "cleanup" =>
               /\ op[u].at \in 1..(Len(clients) + 1)
               /\ \A i \in 1..(op[u].at - 1) : conns[clients[i]] # "open"
      BY DEF AgentInv, OneCleanup
    <2>2. \A u \in Tasks : op'[u].kind = "cleanup" => u # t
      BY <1>2
    <2>3. ASSUME NEW u \in Tasks, op'[u].kind = "cleanup", NEW i \in 1..(op'[u].at - 1)
          PROVE  conns'[clients[i]] # "open"
      <3>1. op[u].kind = "cleanup" /\ op'[u] = op[u] /\ op[u].at \in Nat
        BY <1>1, <2>2, <2>3 DEF Ops
      <3>2. i \in 1..Len(clients) /\ conns[clients[i]] # "open"
        <4>1. op[u].at \in 1..(Len(clients) + 1) /\ i \in 1..(op[u].at - 1)
          BY <2>1, <2>3, <3>1
        <4>2. i \in 1..Len(clients)
          BY <4>1, Shapes, Before
        <4> QED BY <2>1, <3>1, <4>1, <4>2
      <3>3. clients[i] \in 1..Len(conns)
        BY <3>2, Shapes
      <3>4. conns'[clients[i]] = conns[clients[i]]
        BY <1>1, <3>3
      <3> QED BY <3>2, <3>4
    <2>4. /\ clients' = clients
          /\ \A u \in Tasks : op'[u].kind = "cleanup" => op'[u] = op[u]
      BY <1>1, <2>2
    <2>5. ASSUME NEW u \in Tasks, op'[u].kind = "cleanup"
          PROVE  op[u].kind = "cleanup" /\ op'[u].at \in 1..(Len(clients') + 1)
      <3>1. op'[u] = op[u]
        BY <2>4, <2>5
      <3>2. op[u].kind = "cleanup"
        BY <2>5, <3>1, Zenon
      <3>3. op[u].at \in 1..(Len(clients) + 1)
        BY <2>1, <3>2, Zenon
      <3> QED BY <2>4, <3>1, <3>2, <3>3, Zenon
    <2>6. \A u, v \in Tasks : op'[u].kind = "cleanup" /\ op'[v].kind = "cleanup" => u = v
      BY <2>1, <2>5, Zenon
    <2> QED BY <2>3, <2>5, <2>6 DEF OneCleanup
  <1>6. OneCreation'
    BY <1>2 DEF AgentInv, OneCreation
  <1>7. TypeFollows'
    <2>1. CASE op'[t].kind = op[t].kind /\ op'[t].type = op[t].type /\ seen' = seen
      <3>1. \A u \in Tasks : op'[u].kind = op[u].kind /\ op'[u].type = op[u].type
        BY <2>1
      <3>2. UNCHANGED <<fw, given, type, stickyType, agent, seen>>
        BY <1>1, <2>1
      <3> QED BY <3>1, <3>2 DEF AgentInv, TypeFollows
    <2>2. CASE op'[t].kind = "idle" /\ seen' = seen \cup {"load failed"}
      <3>1. agent.made => op[t].kind = "update" /\ fw \in Reloads
        <4>1. agent.made => op[t].kind # "create"
          BY DEF AgentInv, OneCreation
        <4>2. fw \notin Reloads => op[t].kind # "update"
          BY DEF AgentInv, TypeFollows
        <4> QED BY <1>2, <4>1, <4>2
      <3>2. \A u \in Tasks : op'[u].kind = "update" => op[u].kind = "update"
        BY <2>2
      <3> QED BY <1>1, <2>2, <3>1, <3>2 DEF AgentInv, TypeFollows
    <2> QED BY <2>1, <2>2
  <1>8. OpenIsReachable'
    <2> SUFFICES ASSUME NEW c \in 1..Len(conns'), conns'[c] = "open", "two cleanups" \notin seen
                 PROVE  \/ \E i \in DOMAIN clients : clients[i] = c
                        \/ \E u \in Tasks : c \in op'[u].mine
                        \/ c \in lost'
      BY <1>1 DEF OpenIsReachable
    <2>1. CASE c = Len(conns) + 1
      BY <2>1
    <2>2. CASE c \in 1..Len(conns)
      <3>1. conns[c] = "open" /\ c \in DOMAIN conns
        BY <1>1, <2>2, Shapes
      <3>2. \/ \E i \in DOMAIN clients : clients[i] = c
            \/ \E u \in Tasks : c \in op[u].mine
            \/ c \in lost
        BY <3>1 DEF AgentInv, OpenIsReachable
      <3> QED BY <3>2
    <2>3. c = Len(conns) + 1 \/ c \in 1..Len(conns)
      BY <1>1
    <2> QED BY <2>1, <2>2, <2>3
  <1> QED BY <1>3, <1>4, <1>5, <1>6, <1>7, <1>8 DEF AgentInv

LEMMA ConnectKeeps ==
  ASSUME AgentInv, NEW t \in Tasks, Connect(t)
  PROVE  AgentInv'
  <1>1. /\ Loading(t) /\ UNCHANGED <<config, type, stickyType, stickyChoice, agent, clients, count>>
        /\ conns' = Append(conns, "open")
    BY DEF Connect, More
  <1>2. PICK n \in Nat : n = Len(conns)
    BY DEF AgentInv, ToolTypes
  <1>3. Len(conns') = n + 1 /\ op[t] \in Ops /\ op \in [Tasks -> Ops] /\ op[t].mine \subseteq 1..n
    BY <1>1, <1>2 DEF AgentInv, ToolTypes, Known, Ops
  <1>4. CASE /\ op' = [op EXCEPT ![t].at = @ + 1, ![t].mine = @ \cup {n + 1}]
             /\ UNCHANGED <<lost, seen>>
    <2>0. PICK m \in Nat : m = n + 1
      BY <1>2
    <2>1. PICK x : x = [op[t] EXCEPT !.at = op[t].at + 1, !.mine = op[t].mine \cup {m}]
      OBVIOUS
    <2>2. x \in Ops /\ x.kind = op[t].kind /\ x.type = op[t].type /\ x.mine = op[t].mine \cup {m}
      BY <1>3, <2>1, NotedIs
    <2>3. op' = [op EXCEPT ![t] = x]
      BY <1>4, <2>0, <2>1
    <2>4. op' \in [Tasks -> Ops] /\ op'[t] = x /\ \A u \in Tasks : u # t => op'[u] = op[u]
      BY <1>3, <2>2, <2>3
    <2>5. op'[t].mine \subseteq 1..Len(conns')
      BY <1>3, <2>0, <2>2, <2>4
    <2>6. op'[t].kind \notin {"idle", "cleanup"}
      BY <1>1, <2>2, <2>4 DEF Loading
    <2> QED BY <1>1, <1>2, <1>3, <1>4, <2>0, <2>2, <2>4, <2>5, <2>6, LoadStep
  <1>5. CASE LoadRaises(t, {n + 1})
    <2>1. op' \in [Tasks -> Ops] /\ op'[t] = Idle /\ \A u \in Tasks : u # t => op'[u] = op[u]
      BY <1>3, <1>5, IdleIs DEF LoadRaises, Finish
    <2>2. lost' = lost \cup op[t].mine \cup {n + 1} /\ seen' = seen \cup {"load failed"}
      BY <1>5 DEF LoadRaises
    <2>3. lost' \in SUBSET Nat
      <3>1. lost \in SUBSET Nat /\ op[t].mine \in SUBSET Nat /\ n + 1 \in Nat
        BY <1>3 DEF AgentInv, ToolTypes, Ops
      <3> QED BY <2>2, <3>1
    <2>5. lost \subseteq lost' /\ \A c \in 1..Len(conns') : c \in op[t].mine \/ c = Len(conns) + 1 => c \in lost'
      BY <1>2, <2>2
    <2>4. op'[t].kind = "idle" /\ op'[t].mine = {}
      BY <2>1, IdleIs
    <2> QED BY <1>1, <2>1, <2>2, <2>3, <2>4, <2>5, LoadStep
  <1> QED BY <1>2, <1>4, <1>5 DEF Connect

\* A load that made no connection raises.
LEMMA RaiseKeeps ==
  ASSUME AgentInv, NEW t \in Tasks, Loading(t), LoadRaises(t, {}),
         UNCHANGED <<config, type, stickyType, stickyChoice, agent, conns, clients, count>>
  PROVE  AgentInv'
  <1>1. op[t] \in Ops /\ op \in [Tasks -> Ops] /\ Len(conns) \in Nat /\ op[t].mine \subseteq 1..Len(conns)
    BY DEF AgentInv, ToolTypes, Known, Ops
  <1>2. op' \in [Tasks -> Ops] /\ op'[t] = Idle /\ \A u \in Tasks : u # t => op'[u] = op[u]
    BY <1>1, IdleIs DEF LoadRaises, Finish
  <1>3. lost' = lost \cup op[t].mine /\ seen' = seen \cup {"load failed"}
    BY DEF LoadRaises
  <1>4. lost' \in SUBSET Nat
    <2>1. lost \in SUBSET Nat /\ op[t].mine \in SUBSET Nat
      BY <1>1 DEF AgentInv, ToolTypes, Ops
    <2> QED BY <1>3, <2>1
  <1>6. lost \subseteq lost' /\ \A c \in 1..Len(conns') : c \in op[t].mine \/ c = Len(conns) + 1 => c \in lost'
    <2>1. Len(conns') = Len(conns) /\ \A c \in 1..Len(conns') : c # Len(conns) + 1
      BY <1>1
    <2> QED BY <1>3, <2>1
  <1>5. op'[t].kind = "idle" /\ op'[t].mine = {}
    BY <1>2, IdleIs
  <1> QED BY <1>2, <1>3, <1>4, <1>5, <1>6, LoadStep

LEMMA CheckKeeps ==
  ASSUME AgentInv, NEW t \in Tasks, CheckCallable(t)
  PROVE  AgentInv'
  <1>1. /\ Loading(t)
        /\ UNCHANGED <<config, type, stickyType, stickyChoice, agent, conns, clients, count>>
    BY DEF CheckCallable, More
  <1>2. CASE op' = [op EXCEPT ![t].at = @ + 1] /\ UNCHANGED <<lost, seen>>
    <2>1. op[t] \in Ops /\ op \in [Tasks -> Ops] /\ Len(conns) \in Nat /\ op[t].mine \subseteq 1..Len(conns)
      BY DEF AgentInv, ToolTypes, Known, Ops
    <2>2. PICK x : x = [op[t] EXCEPT !.at = op[t].at + 1]
      OBVIOUS
    <2>3. x \in Ops /\ x.kind = op[t].kind /\ x.type = op[t].type /\ x.mine = op[t].mine
      BY <2>1, <2>2 DEF Ops
    <2>4. op' = [op EXCEPT ![t] = x]
      BY <1>2, <2>2
    <2>5. op' \in [Tasks -> Ops] /\ op'[t] = x /\ \A u \in Tasks : u # t => op'[u] = op[u]
      BY <2>1, <2>3, <2>4
    <2>6. \A c \in 1..Len(conns') : c # Len(conns) + 1
      BY <1>1, <2>1
    <2>7. conns' = conns /\ op'[t].mine \subseteq 1..Len(conns')
      BY <1>1, <2>1, <2>3, <2>5
    <2>8. op'[t].kind \notin {"idle", "cleanup"}
      BY <1>1, <2>3, <2>5 DEF Loading
    <2> QED BY <1>1, <1>2, <2>3, <2>5, <2>6, <2>7, <2>8, LoadStep
  <1>3. CASE LoadRaises(t, {})
    BY <1>1, <1>3, RaiseKeeps
  <1> QED BY <1>2, <1>3 DEF CheckCallable

\* A call of a task is put in its place.
LEMMA PutOp ==
  ASSUME AgentInv, NEW t \in Tasks, NEW x \in Ops, op' = [op EXCEPT ![t] = x]
  PROVE  op' \in [Tasks -> Ops] /\ op'[t] = x /\ \A u \in Tasks : u # t => op'[u] = op[u]
  BY Shapes

LEMMA CreateKeeps ==
  ASSUME AgentInv, NEW t \in Tasks, Create(t)
  PROVE  AgentInv'
  <1>1. PICK x : x = [kind |-> "create", type |-> type, at |-> 1, mine |-> {}]
    OBVIOUS
  <1>2. x \in Ops /\ x.kind = "create" /\ x.type = type /\ x.mine = {}
    BY <1>1 DEF Ops, AgentInv, ToolTypes
  <1>3. op' \in [Tasks -> Ops] /\ op'[t] = x /\ \A u \in Tasks : u # t => op'[u] = op[u]
    BY <1>1, <1>2, PutOp DEF Create
  <1>4. /\ count = 0 /\ count' = 1 /\ \A u \in Tasks : op[u].kind = "idle" /\ op[u].mine = {}
        /\ ~agent.made
    BY Shapes DEF Create, AgentInv, OneCreation
  <1>5. UNCHANGED <<fw, given, type, stickyType, stickyChoice, agent, conns, clients, lost, seen>>
    BY DEF Create, config
  <1>6. \A u \in Tasks : op'[u].kind \in {"idle", "create"} /\ op'[u].mine = {} /\ (u # t => op'[u].kind = "idle")
    BY <1>2, <1>3, <1>4
  <1>7. ToolTypes'
    BY <1>3, <1>4, <1>5 DEF AgentInv, ToolTypes
  <1>8. Known'
    BY <1>5, <1>6, Shapes DEF Known
  <1>9. OneCleanup'
    BY <1>6 DEF OneCleanup
  <1>10. OneCreation'
    BY <1>2, <1>3, <1>4, <1>5, <1>6 DEF OneCreation, AgentInv
  <1>11. TypeFollows'
    BY <1>4, <1>5, <1>6 DEF TypeFollows, AgentInv
  <1>12. OpenIsReachable'
    BY <1>4, <1>5, <1>6 DEF OpenIsReachable, AgentInv
  <1> QED BY <1>7, <1>8, <1>9, <1>10, <1>11, <1>12 DEF AgentInv

\* The agent a framework makes for an output type, and what it leaves behind.
LEMMA AgentIs ==
  ASSUME AgentInv, NEW o \in Types \cup {None}, NEW cs \in SUBSET Nat,
         \/ fw = "agno" /\ AgnoAgent(o, cs)
         \/ fw = "openai" /\ OpenAIAgent(o, cs)
         \/ fw = "google" /\ GoogleAgent(o, cs)
         \/ fw = "langchain" /\ LangchainAgent(o, cs)
         \/ fw = "llama_index" /\ LlamaIndexAgent(o, cs)
         \/ fw = "smolagents" /\ SmolagentsAgent(o, cs)
  PROVE  /\ agent' \in [made : BOOLEAN, type : Types \cup {None}, forced : BOOLEAN, conns : SUBSET Nat]
         /\ agent'.made /\ stickyType' \in Types \cup {None} /\ stickyChoice' \in BOOLEAN
         /\ stickyType' # None => given
         /\ fw # "langchain" => \/ agent'.type = o
                                \/ fw \in {"agno", "openai"} /\ given /\ o = None
                                \/ fw = "smolagents" /\ o = None
  <1>1. /\ given \in BOOLEAN /\ stickyType \in Types \cup {None} /\ stickyChoice \in BOOLEAN
        /\ agent.type \in Types \cup {None} /\ (stickyType # None => given)
    BY DEF AgentInv, ToolTypes, TypeFollows
  <1>2. \A a \in Types \cup {None}, b \in BOOLEAN :
          /\ Made(a, b, cs) \in [made : BOOLEAN, type : Types \cup {None}, forced : BOOLEAN, conns : SUBSET Nat]
          /\ Made(a, b, cs).made /\ Made(a, b, cs).type = a
    BY DEF Made
  <1>3. CASE fw \in {"agno", "openai"} /\ AgnoAgent(o, cs)
    <2>1. PICK a \in Types \cup {None} : a = IF o = None THEN stickyType ELSE o
      BY <1>1
    <2>2. agent' = Made(a, FALSE, cs) /\ stickyType' = (IF given /\ o # None THEN o ELSE stickyType)
          /\ stickyChoice' = stickyChoice
      BY <1>3, <2>1 DEF AgnoAgent
    <2>3. a = o \/ (o = None /\ a = stickyType)
      BY <2>1
    <2> HIDE DEF None
    <2> QED BY <1>1, <1>2, <1>3, <2>1, <2>2, <2>3
  <1>4. CASE fw = "google" /\ GoogleAgent(o, cs)
    <2>1. PICK b \in BOOLEAN : b = (o # None \/ stickyChoice)
      OBVIOUS
    <2>2. agent' = Made(o, b, cs) /\ stickyType' = stickyType /\ stickyChoice' \in BOOLEAN
      BY <1>4, <2>1 DEF GoogleAgent
    <2> QED BY <1>1, <1>2, <2>2
  <1>5. CASE fw = "langchain" /\ LangchainAgent(o, cs)
    <2>1. agent' = Made(None, FALSE, cs) /\ stickyType' = stickyType /\ stickyChoice' = stickyChoice
      BY <1>5 DEF LangchainAgent
    <2> QED BY <1>1, <1>2, <1>5, <2>1
  <1>6. CASE fw = "llama_index" /\ LlamaIndexAgent(o, cs)
    <2>1. agent' = Made(o, FALSE, cs) /\ stickyType' = stickyType /\ stickyChoice' = stickyChoice
      BY <1>6 DEF LlamaIndexAgent
    <2> QED BY <1>1, <1>2, <2>1
  <1>7. CASE fw = "smolagents" /\ SmolagentsAgent(o, cs)
    <2>1. PICK a \in Types \cup {None} : a = SetupOutputType(o)
      BY <1>1 DEF SetupOutputType
    <2>2. agent' = Made(a, FALSE, cs) /\ stickyType' = stickyType /\ stickyChoice' = stickyChoice
      BY <1>7, <2>1 DEF SmolagentsAgent
    <2>3. a = o \/ o = None
      BY <2>1 DEF SetupOutputType
    <2> QED BY <1>1, <1>2, <1>7, <2>2, <2>3
  <1> QED BY <1>3, <1>4, <1>5, <1>6, <1>7 DEF AgnoAgent, OpenAIAgent

LEMMA Past == \A p, q \in Nat : \A i \in 1..q : p + i \in 1..(p + q)
  OBVIOUS

\* The clients a load notes, after those that were noted.
LEMMA NotedClients ==
  ASSUME AgentInv, NEW t \in Tasks
  PROVE  LET cs == clients \o SetToSeq(op[t].mine)
         IN /\ cs \in Seq(Nat) /\ \A i \in 1..Len(clients) : i \in 1..Len(cs) /\ cs[i] = clients[i]
            /\ \A i \in 1..Len(cs) : cs[i] \in 1..Len(conns)
            /\ \A c \in op[t].mine : \E i \in 1..Len(cs) : cs[i] = c
            /\ Len(cs) >= Len(clients)
  <1>1. op[t].mine \subseteq 1..Len(conns) /\ Len(conns) \in Nat
    BY Shapes
  <1>2. IsFiniteSet(op[t].mine)
    <2>1. PICK n \in Nat : n = Len(conns)
      BY <1>1
    <2>2. IsFiniteSet(1..n)
      BY UpToFinite
    <2>3. op[t].mine \subseteq 1..n
      BY <1>1, <2>1, Zenon
    <2> QED BY <2>2, <2>3, FS_Subset
  <1>3. PICK m : m = SetToSeq(op[t].mine)
    OBVIOUS
  <1>4. m \in Seq(op[t].mine) /\ \A x \in op[t].mine : \E i \in 1..Len(m) : m[i] = x
    BY <1>2, <1>3, ListedElements
  <1>5. PICK N : N = 1..Len(conns)
    OBVIOUS
  <1>6. m \in Seq(N) /\ clients \in Seq(N)
    <2>1. op[t].mine \subseteq N
      BY <1>1, <1>5
    <2>2. \A i \in 1..Len(clients) : clients[i] \in N
      BY <1>5, Shapes
    <2>3. clients \in Seq(Nat)
      BY Shapes
    <2> QED BY <1>4, <2>1, <2>2, <2>3
  <1>7. PICK cs : cs = clients \o m
    OBVIOUS
  <1>8. /\ cs \in Seq(N) /\ Len(cs) = Len(clients) + Len(m)
        /\ \A i \in 1..Len(clients) : cs[i] = clients[i]
        /\ \A i \in 1..Len(m) : cs[Len(clients) + i] = m[i]
    BY <1>6, <1>7
  <1>9. Len(clients) \in Nat /\ Len(m) \in Nat
    BY <1>6
  <1>10. cs \in Seq(Nat)
    BY <1>1, <1>5, <1>8
  <1>11. \A c \in op[t].mine : \E i \in 1..Len(cs) : cs[i] = c
    <2> SUFFICES ASSUME NEW c \in op[t].mine PROVE \E i \in 1..Len(cs) : cs[i] = c
      OBVIOUS
    <2>1. PICK i \in 1..Len(m) : m[i] = c
      BY <1>4
    <2>2. Len(clients) + i \in 1..Len(cs) /\ cs[Len(clients) + i] = c
      <3>1. Len(clients) + i \in 1..(Len(clients) + Len(m))
        BY <1>9, Past
      <3>2. Len(clients) + i \in 1..Len(cs)
        BY <1>8, <3>1, Zenon
      <3> QED BY <1>8, <2>1, <3>2
    <2> QED BY <2>2
  <1>12. Len(cs) >= Len(clients) /\ \A i \in 1..Len(clients) : i \in 1..Len(cs)
    <2>1. PICK p, q \in Nat : p = Len(clients) /\ q = Len(m)
      BY <1>9
    <2> QED BY <1>8, <2>1
  <1>13. \A i \in 1..Len(cs) : cs[i] \in N
    BY <1>8
  <1>14. cs = clients \o SetToSeq(op[t].mine)
    BY <1>3, <1>7
  <1> QED BY <1>5, <1>8, <1>10, <1>11, <1>12, <1>13, <1>14, Zenon

LEMMA LoadedKeeps ==
  ASSUME AgentInv, NEW t \in Tasks, Loaded(t)
  PROVE  AgentInv'
  <1>1. /\ Loading(t) /\ UNCHANGED <<fw, given, type, conns, count, lost, seen>>
        /\ op[t].kind \in {"create", "update"}
    BY DEF Loaded, config, Loading
  <1>2. op' \in [Tasks -> Ops] /\ op'[t] = Idle /\ \A u \in Tasks : u # t => op'[u] = op[u]
    BY PutOp, IdleIs DEF Loaded, Finish
  <1>3. op'[t].kind = "idle" /\ op'[t].mine = {} /\ \A u \in Tasks : op'[u].kind # "idle" => u # t /\ op'[u] = op[u]
    BY <1>2, IdleIs
  <1>4. /\ clients' \in Seq(Nat) /\ \A i \in 1..Len(clients) : i \in 1..Len(clients') /\ clients'[i] = clients[i]
        /\ \A i \in 1..Len(clients') : clients'[i] \in 1..Len(conns)
        /\ \A c \in op[t].mine : \E i \in 1..Len(clients') : clients'[i] = c
        /\ Len(clients') >= Len(clients) /\ Len(clients') \in Nat /\ DOMAIN clients' = 1..Len(clients')
    <2>1. PICK cs : cs = clients \o SetToSeq(op[t].mine)
      OBVIOUS
    <2>2. /\ cs \in Seq(Nat) /\ \A i \in 1..Len(clients) : i \in 1..Len(cs) /\ cs[i] = clients[i]
          /\ \A i \in 1..Len(cs) : cs[i] \in 1..Len(conns)
          /\ \A c \in op[t].mine : \E i \in 1..Len(cs) : cs[i] = c
          /\ Len(cs) >= Len(clients)
      BY <2>1, NotedClients
    <2>3. Len(cs) \in Nat /\ DOMAIN cs = 1..Len(cs)
      BY <2>2
    <2>4. clients' = cs
      BY <2>1 DEF Loaded
    <2> QED BY <2>2, <2>3, <2>4
  <1>5. op[t].type \in Types \cup {None} /\ op[t].mine \in SUBSET Nat
    BY Shapes DEF Ops
  <1>6. \/ fw = "agno" /\ AgnoAgent(op[t].type, op[t].mine)
        \/ fw = "openai" /\ OpenAIAgent(op[t].type, op[t].mine)
        \/ fw = "google" /\ GoogleAgent(op[t].type, op[t].mine)
        \/ fw = "langchain" /\ LangchainAgent(op[t].type, op[t].mine)
        \/ fw = "llama_index" /\ LlamaIndexAgent(op[t].type, op[t].mine)
        \/ fw = "smolagents" /\ SmolagentsAgent(op[t].type, op[t].mine)
    <2>1. fw \in {"agno", "google", "langchain", "llama_index", "openai", "smolagents"}
      BY AgentToolsAssumption DEF AgentInv, ToolTypes
    <2> QED BY <2>1 DEF Loaded, Build
  <1>7. /\ agent' \in [made : BOOLEAN, type : Types \cup {None}, forced : BOOLEAN, conns : SUBSET Nat]
        /\ agent'.made /\ stickyType' \in Types \cup {None} /\ stickyChoice' \in BOOLEAN
        /\ stickyType' # None => given
        /\ fw # "langchain" => \/ agent'.type = op[t].type
                               \/ fw \in {"agno", "openai"} /\ given /\ op[t].type = None
                               \/ fw = "smolagents" /\ op[t].type = None
    <2>1. PICK o \in Types \cup {None} : o = op[t].type
      BY <1>5
    <2>2. PICK cs \in SUBSET Nat : cs = op[t].mine
      BY <1>5
    <2>3. \/ fw = "agno" /\ AgnoAgent(o, cs)
          \/ fw = "openai" /\ OpenAIAgent(o, cs)
          \/ fw = "google" /\ GoogleAgent(o, cs)
          \/ fw = "langchain" /\ LangchainAgent(o, cs)
          \/ fw = "llama_index" /\ LlamaIndexAgent(o, cs)
          \/ fw = "smolagents" /\ SmolagentsAgent(o, cs)
      <3>1. CASE fw = "agno" /\ AgnoAgent(op[t].type, op[t].mine)
        BY <2>1, <2>2, <3>1 DEF AgnoAgent
      <3>2. CASE fw = "openai" /\ OpenAIAgent(op[t].type, op[t].mine)
        BY <2>1, <2>2, <3>2 DEF OpenAIAgent
      <3>3. CASE fw = "google" /\ GoogleAgent(op[t].type, op[t].mine)
        BY <2>1, <2>2, <3>3 DEF GoogleAgent
      <3>4. CASE fw = "langchain" /\ LangchainAgent(op[t].type, op[t].mine)
        BY <2>1, <2>2, <3>4 DEF LangchainAgent
      <3>5. CASE fw = "llama_index" /\ LlamaIndexAgent(op[t].type, op[t].mine)
        BY <2>1, <2>2, <3>5 DEF LlamaIndexAgent
      <3>6. CASE fw = "smolagents" /\ SmolagentsAgent(op[t].type, op[t].mine)
        BY <2>1, <2>2, <3>6 DEF SmolagentsAgent
      <3> QED BY <1>6, <3>1, <3>2, <3>3, <3>4, <3>5, <3>6
    <2>4. /\ agent' \in [made : BOOLEAN, type : Types \cup {None}, forced : BOOLEAN, conns : SUBSET Nat]
          /\ agent'.made /\ stickyType' \in Types \cup {None} /\ stickyChoice' \in BOOLEAN
          /\ stickyType' # None => given
          /\ fw # "langchain" => \/ agent'.type = o
                                 \/ fw \in {"agno", "openai"} /\ given /\ o = None
                                 \/ fw = "smolagents" /\ o = None
      BY <2>3, AgentIs
    <2> QED BY <2>1, <2>4
  <1>8. ToolTypes'
    BY <1>1, <1>2, <1>4, <1>7 DEF AgentInv, ToolTypes
  <1>9. Known'
    <2>1. \A u \in Tasks : op'[u].mine \subseteq 1..Len(conns) /\ (op'[u].kind \in {"idle", "cleanup"} => op'[u].mine = {})
      BY <1>2, <1>3, Shapes
    <2> QED BY <1>1, <1>4, <2>1 DEF Known
  <1>10. OneCleanup'
    <2> SUFFICES ASSUME "two cleanups" \notin seen PROVE OneCleanup'
      BY <1>1 DEF OneCleanup
    <2>1. \A u, v \in Tasks : op'[u].kind = "cleanup" /\ op'[v].kind = "cleanup" => u = v
      BY <1>3 DEF AgentInv, OneCleanup
    <2>2. ASSUME NEW u \in Tasks, op'[u].kind = "cleanup"
          PROVE  /\ op'[u].at \in 1..(Len(clients') + 1)
                 /\ \A i \in 1..(op'[u].at - 1) : conns'[clients'[i]] # "open"
      <3>1. op[u].kind = "cleanup" /\ op'[u] = op[u]
        BY <1>3, <2>2
      <3>2. op[u].at \in 1..(Len(clients) + 1) /\ \A i \in 1..(op[u].at - 1) : conns[clients[i]] # "open"
        BY <3>1 DEF AgentInv, OneCleanup
      <3>3. PICK k : k = op[u].at
        OBVIOUS
      <3>4. Len(clients) \in Nat /\ Len(clients') \in Nat
        BY <1>4, Shapes
      <3>5. \A i \in 1..(k - 1) : i \in 1..Len(clients)
        BY <3>2, <3>3, <3>4, Before
      <3>6. k \in 1..(Len(clients') + 1)
        BY <1>4, <3>2, <3>3, <3>4, StillBefore
      <3> QED BY <1>1, <1>4, <3>1, <3>2, <3>3, <3>5, <3>6
    <2> QED BY <2>1, <2>2 DEF OneCleanup
  <1>11. OneCreation'
    <2>1. count # 0 /\ (~agent.made => op[t].kind = "create") /\ (agent.made => op[t].kind = "update")
      BY <1>1 DEF AgentInv, OneCreation
    <2>2. \A u \in Tasks : op'[u].kind # "create"
      BY <1>3, <2>1 DEF AgentInv, OneCreation
    <2> QED BY <1>1, <1>7, <2>1, <2>2 DEF OneCreation
  <1>12. TypeFollows'
    <2>1. \A u \in Tasks : op'[u].kind = "update" => u # t /\ op[u].kind = "update" /\ op'[u] = op[u]
      BY <1>3
    <2>2. CASE agent.made
      <3>1. op[t].kind = "update" /\ fw \in Reloads
        BY <1>1, <2>2 DEF AgentInv, OneCreation, TypeFollows
      <3>2. seen \cap {"load failed", "overlap"} = {} => op[t].type = type /\ \A u \in Tasks : op'[u].kind # "update"
        BY <2>1, <2>2, <3>1 DEF AgentInv, TypeFollows
      <3> QED BY <1>1, <1>7, <2>1, <3>1, <3>2 DEF TypeFollows
    <2>3. CASE ~agent.made
      <3>1. op[t].kind = "create" /\ op[t].type = type /\ \A u \in Tasks : op'[u].kind # "update"
        BY <1>1, <2>1, <2>3 DEF AgentInv, OneCreation
      <3> QED BY <1>1, <1>7, <3>1 DEF TypeFollows
    <2> QED BY <2>2, <2>3
  <1>13. OpenIsReachable'
    <2> SUFFICES ASSUME NEW c \in DOMAIN conns, conns[c] = "open", "two cleanups" \notin seen
                 PROVE  \/ \E i \in 1..Len(clients') : clients'[i] = c
                        \/ \E u \in Tasks : c \in op'[u].mine
                        \/ c \in lost
      <3>1. DOMAIN clients' = 1..Len(clients')
        BY <1>4
      <3> QED BY <1>1, <3>1 DEF OpenIsReachable
    <2>1. \/ \E i \in 1..Len(clients) : clients[i] = c
          \/ \E u \in Tasks : c \in op[u].mine
          \/ c \in lost
      BY Shapes DEF AgentInv, OpenIsReachable
    <2> QED BY <1>2, <1>4, <2>1
  <1> QED BY <1>8, <1>9, <1>10, <1>11, <1>12, <1>13 DEF AgentInv

\* An update: t was idle, and is now loading its tools again or idle.
LEMMA UpdateKeeps ==
  ASSUME AgentInv, NEW t \in Tasks, Update(t)
  PROVE  AgentInv'
  <1>1. PICK o \in Types \cup {None} :
          /\ type' = o
          /\ \/ UpdateAgno(t, o)
             \/ UpdateLlamaIndex(t, o)
             \/ UpdateGoogle(t, o)
             \/ UpdateOpenAI(t, o)
             \/ UpdateSmolagents(t, o)
             \/ UpdateLangchain(t, o)
    BY DEF Update
  <1>2. /\ agent.made /\ op[t].kind = "idle" /\ op[t].mine = {} /\ count \in Nat /\ count # 0 /\ count' = count + 1
        /\ UNCHANGED <<fw, given, conns, clients, lost>>
    BY Shapes DEF Update, Busy, config, AgentInv, OneCreation, ToolTypes
  <1>3. \A u \in Tasks : op[u].kind # "create"
    BY <1>2 DEF AgentInv, OneCreation
  <1>4. CASE fw \in Reloads /\ Reload(t, o)
    <2>1. PICK x : x = [kind |-> "update", type |-> o, at |-> 1, mine |-> {}]
      OBVIOUS
    <2>2. x \in Ops /\ x.kind = "update" /\ x.type = o /\ x.mine = {}
      BY <2>1 DEF Ops
    <2>3. op' \in [Tasks -> Ops] /\ op'[t] = x /\ \A u \in Tasks : u # t => op'[u] = op[u]
      BY <1>4, <2>1, <2>2, PutOp DEF Reload
    <2>4. /\ UNCHANGED <<agent, stickyType, stickyChoice>>
          /\ seen \subseteq seen' /\ ("two cleanups" \in seen' => "two cleanups" \in seen)
          /\ (\E u \in Tasks : op[u].kind = "update") => "overlap" \in seen'
      <3>1. seen' = seen \cup (IF \E u \in Tasks : Loading(u) THEN {"overlap"} ELSE {})
        BY <1>4 DEF Reload
      <3>2. (\E u \in Tasks : op[u].kind = "update") => \E u \in Tasks : Loading(u)
        BY DEF Loading
      <3>3. UNCHANGED <<agent, stickyType, stickyChoice>>
        BY <1>4 DEF Reload
      <3> QED BY <3>1, <3>2, <3>3
    <2>12. count' \in Nat /\ count' # 0
      BY <1>2
    <2>5. ToolTypes'
      BY <1>1, <1>2, <2>3, <2>4, <2>12 DEF AgentInv, ToolTypes
    <2>6. Known'
      <3>1. \A u \in Tasks : op'[u].mine \subseteq 1..Len(conns) /\ (op'[u].kind \in {"idle", "cleanup"} => op'[u].mine = {})
        BY <2>2, <2>3, Shapes
      <3> QED BY <1>2, <3>1, Shapes DEF Known
    <2>7. \A u \in Tasks : op'[u].kind = "cleanup" => op'[u] = op[u]
      BY <2>2, <2>3
    <2>8. OneCleanup'
      BY <1>2, <2>4, <2>7 DEF AgentInv, OneCleanup
    <2>9. OneCreation'
      <3>1. agent'.made /\ \A u \in Tasks : op'[u].kind # "create"
        BY <1>2, <1>3, <2>2, <2>3, <2>4
      <3> QED BY <2>12, <3>1 DEF OneCreation
    <2>10. TypeFollows'
      <3>1. agent.made /\ seen' \cap {"load failed", "overlap"} = {} => \A u \in Tasks : op'[u].kind = "update" => u = t
        BY <2>3, <2>4
      <3>2. op'[t].kind = "update" /\ op'[t].type = type'
        BY <1>1, <2>2, <2>3
      <3>3. stickyType' # None => given'
        BY <1>2, <2>4 DEF AgentInv, TypeFollows
      <3>4. fw' \in Reloads
        BY <1>2, <1>4
      <3> QED BY <1>2, <2>4, <3>1, <3>2, <3>3, <3>4 DEF TypeFollows
    <2>11. OpenIsReachable'
      <3>1. \A u \in Tasks : op[u].mine # {} => u # t /\ op'[u] = op[u]
        BY <1>2, <2>3
      <3> QED BY <1>2, <2>4, <3>1 DEF AgentInv, OpenIsReachable
    <2> QED BY <2>5, <2>6, <2>8, <2>9, <2>10, <2>11 DEF AgentInv
  <1>5. CASE /\ fw \notin Reloads /\ UNCHANGED <<op, seen>>
             /\ agent' \in [made : BOOLEAN, type : Types \cup {None}, forced : BOOLEAN, conns : SUBSET Nat]
             /\ agent'.made /\ stickyType' \in Types \cup {None} /\ stickyChoice' \in BOOLEAN
             /\ stickyType' # None => given
             /\ fw # "langchain" => \/ agent'.type = o
                                    \/ fw \in {"agno", "openai"} /\ given /\ o = None
                                    \/ fw = "smolagents" /\ o = None
    <2>1. ToolTypes'
      BY <1>1, <1>2, <1>5 DEF AgentInv, ToolTypes
    <2>2. Known' /\ OneCleanup' /\ OpenIsReachable'
      BY <1>2, <1>5 DEF AgentInv, Known, OneCleanup, OpenIsReachable
    <2>3. OneCreation'
      BY <1>2, <1>3, <1>5 DEF OneCreation
    <2>4. \A u \in Tasks : op[u].kind # "update"
      BY <1>5 DEF AgentInv, TypeFollows
    <2>5. TypeFollows'
      BY <1>1, <1>2, <1>5, <2>4 DEF TypeFollows
    <2> QED BY <2>1, <2>2, <2>3, <2>5 DEF AgentInv
  <1>6. CASE /\ fw \in {"google", "openai", "smolagents"} /\ UNCHANGED <<op, seen>>
             /\ \/ fw = "google" /\ GoogleAgent(o, agent.conns)
                \/ fw = "openai" /\ OpenAIAgent(o, agent.conns)
                \/ fw = "smolagents" /\ SmolagentsAgent(o, agent.conns)
    <2>1. PICK cs \in SUBSET Nat : cs = agent.conns
      BY DEF AgentInv, ToolTypes
    <2>2. \/ fw = "google" /\ GoogleAgent(o, cs)
          \/ fw = "openai" /\ OpenAIAgent(o, cs)
          \/ fw = "smolagents" /\ SmolagentsAgent(o, cs)
      <3>1. CASE fw = "google" /\ GoogleAgent(o, agent.conns)
        BY <2>1, <3>1 DEF GoogleAgent
      <3>2. CASE fw = "openai" /\ OpenAIAgent(o, agent.conns)
        BY <2>1, <3>2 DEF OpenAIAgent
      <3>3. CASE fw = "smolagents" /\ SmolagentsAgent(o, agent.conns)
        BY <2>1, <3>3 DEF SmolagentsAgent
      <3> QED BY <1>6, <3>1, <3>2, <3>3
    <2>3. fw \notin Reloads
      BY <1>6 DEF Reloads
    <2> QED BY <1>5, <1>6, <2>2, <2>3, AgentIs
  <1>7. CASE fw = "langchain" /\ UNCHANGED <<agent, stickyType, stickyChoice, op, seen>>
    <2>1. fw \notin Reloads
      BY <1>7 DEF Reloads
    <2> QED BY <1>2, <1>5, <1>7, <2>1 DEF AgentInv, ToolTypes, TypeFollows
  <1> QED BY <1>1, <1>4, <1>6, <1>7
          DEF UpdateAgno, UpdateLlamaIndex, UpdateGoogle, UpdateOpenAI, UpdateSmolagents, UpdateLangchain, Reloads

LEMMA StartCleanupKeeps ==
  ASSUME AgentInv, NEW t \in Tasks, StartCleanup(t)
  PROVE  AgentInv'
  <1>1. PICK x : x = [kind |-> "cleanup", type |-> None, at |-> 1, mine |-> {}]
    OBVIOUS
  <1>2. x \in Ops /\ x.kind = "cleanup" /\ x.at = 1 /\ x.mine = {}
    BY <1>1 DEF Ops
  <1>3. op' \in [Tasks -> Ops] /\ op'[t] = x /\ \A u \in Tasks : u # t => op'[u] = op[u]
    BY <1>1, <1>2, PutOp DEF StartCleanup
  <1>4. /\ agent.made /\ op[t].kind = "idle" /\ op[t].mine = {} /\ count \in Nat /\ count' = count + 1
        /\ UNCHANGED <<fw, given, type, stickyType, stickyChoice, agent, conns, clients, lost>>
    BY Shapes DEF StartCleanup, Busy, config, AgentInv, ToolTypes
  <1>5. count' \in Nat /\ count' # 0
    BY <1>4
  <1>6. /\ seen \subseteq seen' /\ seen' \subseteq seen \cup {"two cleanups"}
        /\ (\E u \in Tasks : op[u].kind = "cleanup") => "two cleanups" \in seen'
    BY DEF StartCleanup
  <1>7. ToolTypes'
    BY <1>3, <1>4, <1>5 DEF AgentInv, ToolTypes
  <1>8. Known'
    <2>1. \A u \in Tasks : op'[u].mine \subseteq 1..Len(conns) /\ (op'[u].kind \in {"idle", "cleanup"} => op'[u].mine = {})
      BY <1>2, <1>3, Shapes
    <2> QED BY <1>4, <2>1, Shapes DEF Known
  <1>9. OneCleanup'
    <2> SUFFICES ASSUME "two cleanups" \notin seen' PROVE OneCleanup'
      BY DEF OneCleanup
    <2>1. \A u \in Tasks : op'[u].kind = "cleanup" => u = t
      BY <1>3, <1>6
    <2>2. op'[t].at = 1 /\ 1 \in 1..(Len(clients') + 1) /\ 1..(1 - 1) = {}
      BY <1>2, <1>3, <1>4, Shapes, FirstPlace
    <2> QED BY <2>1, <2>2 DEF OneCleanup
  <1>10. OneCreation'
    <2>1. agent'.made /\ \A u \in Tasks : op'[u].kind # "create"
      BY <1>2, <1>3, <1>4 DEF AgentInv, OneCreation
    <2> QED BY <1>5, <2>1 DEF OneCreation
  <1>11. TypeFollows'
    <2>1. seen' \cap {"load failed", "overlap"} = seen \cap {"load failed", "overlap"}
      BY <1>6
    <2>2. \A u \in Tasks : op'[u].kind = "update" <=> op[u].kind = "update"
      BY <1>2, <1>3, <1>4
    <2>3. \A u \in Tasks : op[u].kind = "update" => op'[u] = op[u]
      BY <1>3, <1>4
    <2> QED BY <1>4, <2>1, <2>2, <2>3 DEF AgentInv, TypeFollows
  <1>12. OpenIsReachable'
    <2>1. \A u \in Tasks : op[u].mine # {} => u # t /\ op'[u] = op[u]
      BY <1>3, <1>4
    <2> QED BY <1>4, <1>6, <2>1 DEF AgentInv, OpenIsReachable
  <1> QED BY <1>7, <1>8, <1>9, <1>10, <1>11, <1>12 DEF AgentInv

\* A step of a cleanup: it closes some connections, or the list is cleared, or
\* it ends; what is still open is still noted.
LEMMA CleanupStep ==
  ASSUME AgentInv, NEW t \in Tasks, op[t].kind = "cleanup", NEW x \in Ops, op' = [op EXCEPT ![t] = x],
         x.kind \in {"idle", "cleanup"}, x.mine = {},
         conns' \in Seq(States), Len(conns') = Len(conns),
         \A c \in 1..Len(conns) : conns'[c] = "open" => conns[c] = "open",
         \/ clients' = clients
         \/ clients' = <<>> /\ x.kind = "idle" /\ op[t].at > Len(clients),
         x.kind = "cleanup" => /\ x.at = op[t].at + 1 /\ op[t].at <= Len(clients)
                               /\ op[t].at \in 1..Len(clients) => conns'[clients[op[t].at]] # "open",
         UNCHANGED <<config, type, stickyType, stickyChoice, agent, count, lost, seen>>
  PROVE  AgentInv'
  <1>1. op' \in [Tasks -> Ops] /\ op'[t] = x /\ \A u \in Tasks : u # t => op'[u] = op[u]
    BY PutOp
  <1>2. UNCHANGED <<fw, given>> /\ op[t].mine = {} /\ clients' \in Seq(Nat)
        /\ DOMAIN conns' = 1..Len(conns') /\ DOMAIN conns = 1..Len(conns)
    <2>1. PICK c : c = conns'
      OBVIOUS
    <2>2. c \in Seq(States)
      BY <2>1
    <2>3. DOMAIN c = 1..Len(c)
      BY <2>2
    <2>4. <<>> \in Seq(Nat)
      OBVIOUS
    <2>5. clients' \in Seq(Nat)
      BY <2>4, Shapes
    <2>6. UNCHANGED <<fw, given>>
      BY DEF config
    <2> QED BY <2>1, <2>3, <2>5, <2>6, Shapes
  <1>3. \A u \in Tasks : op'[u].kind \notin {"idle", "cleanup"} \/ op[u].kind \notin {"idle", "cleanup"} =>
          u # t /\ op'[u] = op[u]
    BY <1>1
  <1>4. ToolTypes'
    BY <1>1, <1>2 DEF AgentInv, ToolTypes
  <1>5. Known'
    <2>1. \A u \in Tasks : op'[u].mine \subseteq 1..Len(conns') /\ (op'[u].kind \in {"idle", "cleanup"} => op'[u].mine = {})
      BY <1>1, Shapes
    <2>2. \A i \in 1..Len(clients') : clients'[i] \in 1..Len(conns')
      <3>1. CASE clients' = clients
        BY <3>1, Shapes
      <3>2. CASE clients' = <<>>
        BY <3>2
      <3> QED BY <3>1, <3>2
    <2> QED BY <2>1, <2>2 DEF Known
  <1>6. OneCleanup'
    <2> SUFFICES ASSUME "two cleanups" \notin seen PROVE OneCleanup'
      BY DEF OneCleanup
    <2>1. /\ \A u \in Tasks : op[u].kind = "cleanup" => u = t
          /\ op[t].at \in 1..(Len(clients) + 1)
          /\ \A i \in 1..(op[t].at - 1) : conns[clients[i]] # "open"
      BY DEF AgentInv, OneCleanup
    <2>2. \A u \in Tasks : op'[u].kind = "cleanup" => u = t
      BY <1>1, <2>1
    <2>3. ASSUME x.kind = "cleanup"
          PROVE  /\ x.at \in 1..(Len(clients') + 1)
                 /\ \A i \in 1..(x.at - 1) : conns'[clients'[i]] # "open"
      <3>1. PICK n \in Nat : n = Len(clients)
        BY Shapes
      <3>2. PICK k \in 1..(n + 1) : k = op[t].at
        BY <2>1, <3>1
      <3>3. clients' = clients /\ x.at = k + 1 /\ k <= n
        BY <2>3, <3>1, <3>2
      <3>0. PICK y : y = x.at
        OBVIOUS
      <3>4. y \in 1..(n + 1) /\ k \in 1..n /\ \A i \in 1..(y - 1) : i = k \/ i \in 1..(k - 1)
        BY <3>3, <3>0, NextPlace
      <3>5. conns'[clients[k]] # "open"
        BY <2>3, <3>1, <3>2, <3>4
      <3>6. ASSUME NEW i \in 1..(k - 1) PROVE conns'[clients[i]] # "open"
        <4>1. conns[clients[i]] # "open"
          BY <2>1, <3>2
        <4>2. i \in 1..n
          BY Before
        <4>3. PICK c \in 1..Len(conns) : c = clients[i]
          BY <3>1, <4>2, Shapes
        <4> QED BY <4>1, <4>3
      <3>7. \A i \in 1..(y - 1) : conns'[clients'[i]] # "open"
        BY <3>3, <3>4, <3>5, <3>6
      <3>8. y \in 1..(Len(clients') + 1)
        BY <3>1, <3>3, <3>4
      <3> QED BY <3>7, <3>8, <3>0, Zenon
    <2> QED BY <1>1, <2>2, <2>3 DEF OneCleanup
  <1>7. OneCreation'
    BY <1>3 DEF AgentInv, OneCreation
  <1>8. TypeFollows'
    <2>1. \A u \in Tasks : op'[u].kind = "update" <=> op[u].kind = "update"
      BY <1>3
    <2>2. \A u \in Tasks : op[u].kind = "update" => op'[u] = op[u]
      BY <1>3
    <2> QED BY <1>2, <2>1, <2>2 DEF AgentInv, TypeFollows
  <1>9. OpenIsReachable'
    <2> SUFFICES ASSUME NEW c \in 1..Len(conns), conns'[c] = "open", "two cleanups" \notin seen
                 PROVE  \/ \E i \in DOMAIN clients' : clients'[i] = c
                        \/ \E u \in Tasks : c \in op'[u].mine
                        \/ c \in lost
      BY <1>2 DEF OpenIsReachable
    <2>1. conns[c] = "open"
      OBVIOUS
    <2>2. \/ \E i \in DOMAIN clients : clients[i] = c
          \/ \E u \in Tasks : c \in op[u].mine
          \/ c \in lost
      BY <1>2, <2>1 DEF AgentInv, OpenIsReachable
    <2>3. \A u \in Tasks : op[u].mine # {} => op'[u] = op[u]
      BY <1>1, <1>2
    <2>4. CASE \E i \in DOMAIN clients : clients[i] = c
      <3>1. PICK i \in 1..Len(clients) : clients[i] = c
        BY <2>4, Shapes
      <3>2. CASE clients' = clients
        BY <2>4, <3>2
      <3>3. CASE op[t].at > Len(clients)
        <4>1. /\ op[t].at \in 1..(Len(clients) + 1)
              /\ \A j \in 1..(op[t].at - 1) : conns[clients[j]] # "open"
          BY DEF AgentInv, OneCleanup
        <4>2. i \in 1..(op[t].at - 1)
          BY <3>1, <3>3, <4>1, Shapes, PastTheEnd
        <4> QED BY <2>1, <3>1, <4>1, <4>2
      <3> QED BY <3>2, <3>3
    <2> QED BY <2>2, <2>3, <2>4
  <1> QED BY <1>4, <1>5, <1>6, <1>7, <1>8, <1>9 DEF AgentInv

LEMMA DisconnectStep ==
  ASSUME AgentInv, NEW t \in Tasks, Disconnect(t), conns' \in Seq(States), Len(conns') = Len(conns),
         \A c \in 1..Len(conns) : conns'[c] = "open" => conns[c] = "open",
         op[t].at \in 1..Len(clients) => conns'[clients[op[t].at]] # "open"
  PROVE  AgentInv'
  <1>1. /\ op[t].kind = "cleanup" /\ op[t].at <= Len(clients) /\ op[t].mine = {} /\ op[t] \in Ops
        /\ UNCHANGED <<config, type, stickyType, stickyChoice, agent, clients, count, lost, seen>>
        /\ \/ op' = [op EXCEPT ![t].at = @ + 1]
           \/ Finish(t)
    BY Shapes DEF Disconnect
  <1>2. CASE op' = [op EXCEPT ![t].at = @ + 1]
    <2>1. PICK x : x = [op[t] EXCEPT !.at = op[t].at + 1]
      OBVIOUS
    <2>2. x \in Ops /\ x.kind = "cleanup" /\ x.mine = {} /\ x.at = op[t].at + 1
      <3>1. op[t].at + 1 \in Nat
        BY <1>1 DEF Ops
      <3>2. \A y \in Ops, k \in Nat : LET z == [y EXCEPT !.at = k]
                                      IN z \in Ops /\ z.kind = y.kind /\ z.mine = y.mine /\ z.at = k
        BY DEF Ops
      <3> QED BY <1>1, <2>1, <3>1, <3>2
    <2>3. op' = [op EXCEPT ![t] = x]
      BY <1>2, <2>1
    <2> QED BY <1>1, <2>2, <2>3, CleanupStep
  <1>3. CASE Finish(t)
    <2>1. op' = [op EXCEPT ![t] = Idle]
      BY <1>3 DEF Finish
    <2> QED BY <1>1, <2>1, IdleIs, CleanupStep
  <1> QED BY <1>1, <1>2, <1>3

LEMMA DisconnectKeeps ==
  ASSUME AgentInv, NEW t \in Tasks, Disconnect(t)
  PROVE  AgentInv'
  <1>1. /\ op[t].kind = "cleanup" /\ op[t].at <= Len(clients) /\ op[t].mine = {} /\ op[t] \in Ops
        /\ UNCHANGED <<config, type, stickyType, stickyChoice, agent, clients, count, lost, seen>>
        /\ conns \in Seq(States)
    BY Shapes DEF Disconnect
  <1>2. PICK d, s : d = clients[op[t].at] /\ s = conns'
    OBVIOUS
  <1>3. op[t].at \in 1..Len(clients) => d \in 1..Len(conns)
    BY <1>2, Shapes
  <1>4. CASE \E v \in {"closed", "left"} : conns' = [conns EXCEPT ![d] = v]
    <2>1. PICK v \in States : v # "open" /\ s = [conns EXCEPT ![d] = v]
      BY <1>2, <1>4 DEF States
    <2>2. /\ s \in Seq(States) /\ Len(s) = Len(conns) /\ (d \in 1..Len(conns) => s[d] = v)
          /\ \A c \in 1..Len(conns) : s[c] = "open" => conns[c] = "open"
      <3>1. PICK r : r = conns
        OBVIOUS
      <3>2. r \in Seq(States)
        BY <1>1, <3>1
      <3>3. LET q == [r EXCEPT ![d] = v]
            IN  /\ q \in Seq(States) /\ Len(q) = Len(r) /\ (d \in 1..Len(r) => q[d] = v)
                /\ \A c \in 1..Len(r) : c # d => q[c] = r[c]
        BY <3>2, PutConn
      <3>4. s = [r EXCEPT ![d] = v]
        BY <2>1, <3>1
      <3>5. /\ s \in Seq(States) /\ Len(s) = Len(r) /\ (d \in 1..Len(r) => s[d] = v)
            /\ \A c \in 1..Len(r) : c # d => s[c] = r[c]
        BY <3>3, <3>4, Zenon
      <3>6. \A c \in 1..Len(r) : s[c] = "open" => r[c] = "open"
        <4>1. ASSUME NEW c \in 1..Len(r), s[c] = "open" PROVE r[c] = "open"
          <5>1. c # d
            BY <2>1, <3>5, <4>1
          <5>2. s[c] = r[c]
            BY <3>5, <5>1, Zenon
          <5> QED BY <4>1, <5>2, Zenon
        <4> QED BY <4>1
      <3> QED BY <3>1, <3>5, <3>6
    <2>3. op[t].at \in 1..Len(clients) => s[d] # "open"
      BY <1>3, <2>1, <2>2
    <2>4. conns' \in Seq(States) /\ Len(conns') = Len(conns)
      BY <1>2, <2>2, Zenon
    <2>5. \A c \in 1..Len(conns) : conns'[c] = "open" => conns[c] = "open"
      BY <1>2, <2>2, Zenon
    <2>6. op[t].at \in 1..Len(clients) => conns'[clients[op[t].at]] # "open"
      BY <1>2, <2>3, Zenon
    <2> QED BY <2>4, <2>5, <2>6, DisconnectStep
  <1>5. CASE conns' = conns /\ conns[d] # "open"
    BY <1>1, <1>2, <1>5, DisconnectStep
  <1> QED BY <1>1, <1>2, <1>4, <1>5 DEF Disconnect
LEMMA CleanedUpKeeps ==
  ASSUME AgentInv, NEW t \in Tasks, CleanedUp(t)
  PROVE  AgentInv'
  <1>1. /\ op[t].kind = "cleanup" /\ op[t].at > Len(clients) /\ clients' = <<>> /\ op' = [op EXCEPT ![t] = Idle]
        /\ UNCHANGED <<config, type, stickyType, stickyChoice, agent, conns, count, lost, seen>>
    BY DEF CleanedUp, Finish
  <1>2. conns' \in Seq(States) /\ Len(conns') = Len(conns)
    BY <1>1, Shapes
  <1> QED BY <1>1, <1>2, IdleIs, CleanupStep

-----------------------------------------------------------------------------
(***************************************************************************)
(* Every reachable state.                                                  *)
(***************************************************************************)

LEMMA AgentInit == Init => AgentInv
  <1> SUFFICES ASSUME Init PROVE AgentInv
    OBVIOUS
  <1>1. \A t \in Tasks : op[t] = Idle
    BY DEF Init
  <1>2. \A t \in Tasks : op[t].kind = "idle" /\ op[t].mine = {}
    BY <1>1, IdleIs
  <1>3. conns = <<>> /\ clients = <<>> /\ agent = NoAgent /\ stickyType = None /\ count = 0 /\ lost = {}
    BY DEF Init
  <1>4. ToolTypes
    <2>1. op \in [Tasks -> Ops]
      BY IdleIs DEF Init
    <2>2. agent \in [made : BOOLEAN, type : Types \cup {None}, forced : BOOLEAN, conns : SUBSET Nat]
      BY <1>3 DEF NoAgent
    <2>3. fw \in Frameworks /\ given \in BOOLEAN /\ type \in Types \cup {None} /\ stickyChoice = FALSE
      BY DEF Init
    <2>4. <<>> \in Seq(States) /\ <<>> \in Seq(Nat)
      OBVIOUS
    <2>5. 0 \in Nat /\ {} \in SUBSET Nat /\ FALSE \in BOOLEAN
      OBVIOUS
    <2> QED BY <1>3, <2>1, <2>2, <2>3, <2>4, <2>5, Zenon DEF ToolTypes
  <1>5. Known
    BY <1>2, <1>3 DEF Known
  <1>6. ~agent.made
    BY <1>3 DEF NoAgent
  <1>7. OneCleanup /\ OneCreation /\ TypeFollows
    BY <1>2, <1>3, <1>6 DEF OneCleanup, OneCreation, TypeFollows
  <1>8. OpenIsReachable
    <2>1. DOMAIN <<>> = {}
      OBVIOUS
    <2> QED BY <1>3, <2>1 DEF OpenIsReachable
  <1> QED BY <1>4, <1>5, <1>7, <1>8 DEF AgentInv

LEMMA AgentStutters == AgentInv /\ UNCHANGED vars => AgentInv'
  <1> SUFFICES ASSUME AgentInv, UNCHANGED vars PROVE AgentInv'
    OBVIOUS
  <1>1. UNCHANGED <<fw, given, type, stickyType, stickyChoice, agent, conns, clients, op, count, lost, seen>>
    BY DEF vars
  <1>2. ToolTypes' /\ Known'
    BY <1>1 DEF AgentInv, ToolTypes, Known
  <1>3. OneCleanup' /\ OneCreation'
    BY <1>1 DEF AgentInv, OneCleanup, OneCreation
  <1>4. TypeFollows' /\ OpenIsReachable'
    BY <1>1 DEF AgentInv, TypeFollows, OpenIsReachable
  <1> QED BY <1>2, <1>3, <1>4 DEF AgentInv

\* The inductive invariant of an agent and the calls on it.
THEOREM AgentKeepsInv == Spec => []AgentInv
  <1>1. ASSUME AgentInv, [Next]_vars PROVE AgentInv'
    <2>1. CASE UNCHANGED vars
      BY <1>1, <2>1, AgentStutters
    <2>2. ASSUME NEW t \in Tasks,
                 \/ Create(t) \/ Connect(t) \/ ConnectFails(t) \/ CheckCallable(t) \/ Loaded(t)
                 \/ Update(t) \/ StartCleanup(t) \/ Disconnect(t) \/ CleanedUp(t)
          PROVE  AgentInv'
      <3>1. CASE ConnectFails(t)
        BY <1>1, <3>1, RaiseKeeps DEF ConnectFails, More
      <3> QED BY <1>1, <2>2, <3>1, CreateKeeps, ConnectKeeps, CheckKeeps, LoadedKeeps, UpdateKeeps,
                 StartCleanupKeeps, DisconnectKeeps, CleanedUpKeeps
    <2> QED BY <1>1, <2>1, <2>2 DEF Next
  <1> QED BY <1>1, AgentInit, PTL DEF Spec

\* However many tasks load, update and clean up an agent, and whatever fails, an
\* open connection that no disconnect has failed on is noted for a cleanup, held by
\* a load, or belongs to a load that raised; only two cleanups at a time forget one
\* (_load_tools, cleanup_async, MCPClient.disconnect).
THEOREM OpenDoesReach == Spec => []OpenIsReachable
  BY AgentKeepsInv, PTL DEF AgentInv

\* With no call under way, the agent enforces config.output_type: what
\* update_output_type_async and the frameworks' _load_agent make of it, the
\* sticky types of a caller's own config and of final_answer excepted.
THEOREM TypeIsEnforced == Spec => []EnforcesItsType
  <1>1. AgentInv => EnforcesItsType
    <2> SUFFICES ASSUME AgentInv, agent.made, Busy = {}, fw # "langchain"
                 PROVE  \/ agent.type = type
                        \/ fw \in {"agno", "openai"} /\ given /\ type = None
                        \/ fw = "smolagents" /\ type = None
                        \/ fw \in {"agno", "llama_index"} /\ seen \cap {"load failed", "overlap"} # {}
      BY DEF EnforcesItsType
    <2>1. \A t \in Tasks : op[t].kind # "update"
      BY DEF Busy
    <2> QED BY <2>1 DEF AgentInv, TypeFollows, Reloads
  <1> QED BY <1>1, AgentKeepsInv, PTL

-----------------------------------------------------------------------------
(***************************************************************************)
(* An agent that is served, whatever the requests and conversations.       *)
(***************************************************************************)

\* The states a request can be in, and those of a conversation.
Reqs == [pc : {"new", "sent", "accepted", "running", "done"}, place : Contexts \cup {MCP},
         tool : BOOLEAN, hurt : BOOLEAN, ended : BOOLEAN,
         before : SUBSET Requests, base : SUBSET Requests,
         client : {"idle", "waits", "answered", "over"}]
Talks == [there : BOOLEAN, expired : BOOLEAN, history : SUBSET Requests]

ServingTypes ==
    /\ req \in [Requests -> Reqs] /\ ctx \in [Contexts -> Talks]
    /\ callbacks \in Seq(Requests) /\ forgot \in SUBSET Requests /\ overlapped \in BOOLEAN
    /\ stray \in SUBSET Requests /\ missed \in SUBSET Requests /\ leaked \in SUBSET Requests

\* How far a request has come.
Progress ==
    \A r \in Requests :
      /\ req[r].pc = "new" => req[r].place = MCP
      /\ req[r].pc = "accepted" => Streaming(r)
      /\ req[r].client = "answered" => req[r].pc = "done"
      /\ req[r].ended => req[r].pc = "done"
      /\ r \in leaked => req[r].pc = "done" /\ ~req[r].ended

\* The runs that have an updater of their own.
Streams == {r \in Running : Streaming(r)}

Updaters ==
    /\ IsFiniteSet(Streams) /\ IsFiniteSet(leaked)
    /\ Len(callbacks) = Cardinality(Streams) + Cardinality(leaked)

\* One run at a time: its updater is the last on the list, after those that
\* were left there.
Alone ==
    ~overlapped =>
      /\ \A r, q \in Running : r = q
      /\ \A i \in 1..Len(callbacks) : callbacks[i] \in leaked \/ callbacks[i] \in Streams
      /\ \A r \in Streams : /\ Len(callbacks) > 0 /\ callbacks[Len(callbacks)] = r
                            /\ \A i \in 1..(Len(callbacks) - 1) : callbacks[i] \in leaked
      /\ SequentialIsClean

\* A turn that was answered is in the context's history, as long as the context
\* is there; the context of a request under way is there or was lost under it.
Kept ==
    /\ \A r \in Requests : Streaming(r) =>
         /\ req[r].pc \in {"accepted", "running"} => Found(req[r].place) \/ r \in forgot
         /\ req[r].client = "answered" =>
              \/ r \in forgot
              \/ Found(req[r].place) /\ r \in ctx[req[r].place].history
    /\ \A r, q \in Requests : q \in req[r].before =>
         req[q].client = "answered" /\ Streaming(q) /\ req[q].place = req[r].place

ServingInv == ServingTypes /\ Progress /\ Updaters /\ Alone /\ Kept /\ FollowUpHasHistory

LEMMA ServingShapes ==
  ASSUME ServingInv
  PROVE  /\ req \in [Requests -> Reqs] /\ \A q \in Requests : req[q] \in Reqs
         /\ ctx \in [Contexts -> Talks] /\ callbacks \in Seq(Requests) /\ Len(callbacks) \in Nat
         /\ forgot \in SUBSET Requests /\ overlapped \in BOOLEAN
         /\ stray \in SUBSET Requests /\ missed \in SUBSET Requests /\ leaked \in SUBSET Requests
  BY DEF ServingInv, ServingTypes

LEMMA PutReq ==
  ASSUME ServingInv, NEW r \in Requests, NEW x \in Reqs, req' = [req EXCEPT ![r] = x]
  PROVE  req' \in [Requests -> Reqs] /\ req'[r] = x /\ \A q \in Requests : q # r => req'[q] = req[q]
  BY ServingShapes

\* A request's place is a context's, unless it came over MCP.
LEMMA PlaceIs ==
  ASSUME NEW x \in Reqs
  PROVE  x.place = MCP <=> x.place \notin Contexts
  BY A2AServingAssumption DEF Reqs

\* A step of one request: everything but the updaters.
LEMMA ServeStep ==
  ASSUME ServingInv, NEW r \in Requests, NEW x \in Reqs, req' = [req EXCEPT ![r] = x],
         ctx' \in [Contexts -> Talks], callbacks' \in Seq(Requests), forgot' = forgot, overlapped' \in BOOLEAN,
         stray' \in SUBSET Requests, missed' \in SUBSET Requests,
         \/ leaked' = leaked
         \/ leaked' = leaked \cup {r} /\ x.pc = "done" /\ ~x.ended,
         \A c \in Contexts : Found(c) => /\ ctx'[c].there /\ ~ctx'[c].expired
                                         /\ ctx[c].history \subseteq ctx'[c].history,
         req[r].client # "answered", req[r].pc = "done" => x.pc = "done" /\ x.ended = req[r].ended,
         x.pc = "new" => x.place = MCP, x.pc = "accepted" => x.place # MCP,
         x.client = "answered" => x.pc = "done", x.ended => x.pc = "done",
         x.pc \in {"accepted", "running"} /\ x.place # MCP =>
           \/ r \in forgot
           \/ ctx'[x.place].there /\ ~ctx'[x.place].expired,
         x.client = "answered" /\ x.place # MCP =>
           \/ r \in forgot
           \/ ctx'[x.place].there /\ ~ctx'[x.place].expired /\ r \in ctx'[x.place].history,
         \A q \in x.before : q # r /\ req[q].client = "answered" /\ Streaming(q) /\ req[q].place = x.place,
         x.pc = "running" => x.before \subseteq x.base \cup forgot
  PROVE  ServingTypes' /\ Progress' /\ Kept' /\ FollowUpHasHistory'
  <1>1. req' \in [Requests -> Reqs] /\ req'[r] = x /\ \A q \in Requests : q # r => req'[q] = req[q]
    BY PutReq
  <1>2. leaked' \in SUBSET Requests
    BY ServingShapes
  <1>3. ServingTypes'
    BY <1>1, <1>2, ServingShapes DEF ServingTypes
  <1>4. Progress'
    <2> SUFFICES ASSUME NEW q \in Requests
                 PROVE  /\ req'[q].pc = "new" => req'[q].place = MCP
                        /\ req'[q].pc = "accepted" => req'[q].place # MCP
                        /\ req'[q].client = "answered" => req'[q].pc = "done"
                        /\ req'[q].ended => req'[q].pc = "done"
                        /\ q \in leaked' => req'[q].pc = "done" /\ ~req'[q].ended
      BY DEF Progress, Streaming
    <2>1. CASE q = r
      BY <1>1, <2>1 DEF ServingInv, Progress, Streaming
    <2>2. CASE q # r
      BY <1>1, <2>2 DEF ServingInv, Progress, Streaming
    <2> QED BY <2>1, <2>2
  <1>5. Kept'
    <2>1. ASSUME NEW q \in Requests, req'[q].place # MCP
          PROVE  /\ req'[q].pc \in {"accepted", "running"} =>
                      \/ q \in forgot
                      \/ ctx'[req'[q].place].there /\ ~ctx'[req'[q].place].expired
                 /\ req'[q].client = "answered" =>
                      \/ q \in forgot
                      \/ /\ ctx'[req'[q].place].there /\ ~ctx'[req'[q].place].expired
                         /\ q \in ctx'[req'[q].place].history
      <3>1. CASE q = r
        BY <1>1, <2>1, <3>1
      <3>2. CASE q # r
        <4>1. req'[q] = req[q] /\ req[q].place \in Contexts
          BY <1>1, <2>1, <3>2, PlaceIs, ServingShapes
        <4>2. /\ req[q].pc \in {"accepted", "running"} => Found(req[q].place) \/ q \in forgot
              /\ req[q].client = "answered" =>
                   \/ q \in forgot
                   \/ Found(req[q].place) /\ q \in ctx[req[q].place].history
          BY <2>1, <4>1 DEF ServingInv, Kept, Streaming
        <4> QED BY <4>1, <4>2
      <3> QED BY <3>1, <3>2
    <2>2. ASSUME NEW p \in Requests, NEW q \in req'[p].before
          PROVE  q \in Requests => req'[q].client = "answered" /\ req'[q].place # MCP /\ req'[q].place = req'[p].place
      <3>1. CASE p = r
        BY <1>1, <2>2, <3>1 DEF Streaming
      <3>2. CASE p # r
        BY <1>1, <2>2, <3>2 DEF ServingInv, Kept, Streaming
      <3> QED BY <3>1, <3>2
    <2> QED BY <2>1, <2>2 DEF Kept, Streaming, Found
  <1>6. FollowUpHasHistory'
    <2> SUFFICES ASSUME NEW q \in Requests, req'[q].pc = "running"
                 PROVE  req'[q].before \subseteq req'[q].base \cup forgot
      BY DEF FollowUpHasHistory, Running
    <2>1. CASE q = r
      BY <1>1, <2>1
    <2>2. CASE q # r
      BY <1>1, <2>2 DEF ServingInv, FollowUpHasHistory, Running
    <2> QED BY <2>1, <2>2
  <1> QED BY <1>3, <1>4, <1>5, <1>6

\* A step that starts and ends no run and touches no updater.
LEMMA AsideKeeps ==
  ASSUME ServingInv, UNCHANGED <<callbacks, observed>>,
         \A q \in Requests : /\ req'[q].pc = "running" <=> req[q].pc = "running"
                             /\ req[q].pc = "running" => req'[q].place = req[q].place
                             /\ req'[q].hurt = req[q].hurt
  PROVE  Updaters' /\ Alone'
  <1>1. Running' = Running /\ Streams' = Streams
    BY DEF Running, Streams, Streaming
  <1>2. UNCHANGED <<overlapped, stray, missed, leaked>>
    BY DEF observed
  <1>3. Updaters'
    BY <1>1, <1>2 DEF ServingInv, Updaters
  <1>4. SequentialIsClean => SequentialIsClean'
    BY <1>2 DEF SequentialIsClean
  <1>5. Alone'
    BY <1>1, <1>2, <1>4 DEF ServingInv, Alone
  <1> QED BY <1>3, <1>5

\* Looking a context up, starting one anew and noting a turn lose no history of
\* a context that is there.
LEMMA Looking ==
  ASSUME ServingInv, NEW c \in Contexts, NEW r \in Requests
  PROVE  /\ GetContext(c) \in [Contexts -> Talks] /\ AddContext(c) \in [Contexts -> Talks]
         /\ Remember(r, c) \in [Contexts -> Talks]
         /\ \A d \in Contexts : Found(d) => GetContext(c)[d] = ctx[d]
         /\ \A d \in Contexts : Found(d) /\ d # c => AddContext(c)[d] = ctx[d]
         /\ AddContext(c)[c].there /\ ~AddContext(c)[c].expired
         /\ \A d \in Contexts : Found(d) =>
              /\ Remember(r, c)[d].there /\ ~Remember(r, c)[d].expired
              /\ ctx[d].history \subseteq Remember(r, c)[d].history
         /\ Found(c) => r \in Remember(r, c)[c].history
  <1>1. ctx \in [Contexts -> Talks] /\ \A d \in Contexts : ctx[d] \in Talks
    BY ServingShapes
  <1>2. Absent \in Talks
    BY DEF Absent, Talks
  <1>3. PICK z : z = [Absent EXCEPT !.there = TRUE]
    OBVIOUS
  <1>4. z \in Talks /\ z.there /\ ~z.expired
    BY <1>3 DEF Absent, Talks
  <1>5. /\ GetContext(c) \in [Contexts -> Talks]
        /\ \A d \in Contexts : Found(d) => GetContext(c)[d] = ctx[d]
    BY <1>1, <1>2 DEF GetContext
  <1>6. /\ AddContext(c) \in [Contexts -> Talks]
        /\ \A d \in Contexts : Found(d) /\ d # c => AddContext(c)[d] = ctx[d]
        /\ AddContext(c)[c] = z
    <2>1. AddContext(c) = [d \in Contexts |-> IF d = c THEN z ELSE IF ctx[d].expired THEN Absent ELSE ctx[d]]
      BY <1>3 DEF AddContext
    <2> QED BY <1>1, <1>2, <1>4, <2>1 DEF Found
  <1>7. CASE Found(c)
    <2>1. PICK y : y = [ctx[c] EXCEPT !.history = ctx[c].history \cup {r}]
      OBVIOUS
    <2>2. /\ y \in Talks /\ y.there = ctx[c].there /\ y.expired = ctx[c].expired
          /\ y.history = ctx[c].history \cup {r}
      <3>1. \A u \in Talks, h \in SUBSET Requests :
              LET v == [u EXCEPT !.history = h]
              IN v \in Talks /\ v.there = u.there /\ v.expired = u.expired /\ v.history = h
        BY DEF Talks
      <3>2. ctx[c].history \cup {r} \in SUBSET Requests
        BY <1>1 DEF Talks
      <3> QED BY <1>1, <2>1, <3>1, <3>2
    <2>3. Remember(r, c) = [ctx EXCEPT ![c] = y]
      BY <1>7, <2>1 DEF Remember
    <2>4. /\ Remember(r, c) \in [Contexts -> Talks] /\ Remember(r, c)[c] = y
          /\ \A d \in Contexts : d # c => Remember(r, c)[d] = ctx[d]
      BY <1>1, <2>2, <2>3
    <2> QED BY <1>4, <1>5, <1>6, <1>7, <2>2, <2>4 DEF Found
  <1>8. CASE ~Found(c)
    <2>1. Remember(r, c) = GetContext(c)
      BY <1>8 DEF Remember
    <2> QED BY <1>4, <1>5, <1>6, <1>8, <2>1 DEF Found
  <1> QED BY <1>7, <1>8

\* What the steps make of a request's record.
AskedOf(y, p, b) == [y EXCEPT !.pc = "sent", !.place = p, !.client = "waits", !.before = b]

LEMMA Asked ==
  ASSUME NEW y \in Reqs, NEW p \in Contexts \cup {MCP}, NEW b \in SUBSET Requests
  PROVE  LET x == AskedOf(y, p, b)
         IN /\ x \in Reqs /\ x.pc = "sent" /\ x.place = p /\ x.client = "waits" /\ x.before = b
            /\ x.hurt = y.hurt /\ x.ended = y.ended
  BY DEF Reqs, AskedOf

LEMMA GivenUp ==
  ASSUME NEW y \in Reqs, NEW x, x = [y EXCEPT !.client = "over"]
  PROVE  /\ x \in Reqs /\ x.client = "over" /\ x.pc = y.pc /\ x.place = y.place
         /\ x.before = y.before /\ x.base = y.base /\ x.hurt = y.hurt /\ x.ended = y.ended
  BY DEF Reqs

LEMMA Accepted ==
  ASSUME NEW y \in Reqs, NEW x, x = [y EXCEPT !.pc = "accepted"]
  PROVE  /\ x \in Reqs /\ x.pc = "accepted" /\ x.client = y.client /\ x.place = y.place
         /\ x.before = y.before /\ x.base = y.base /\ x.hurt = y.hurt /\ x.ended = y.ended
  BY DEF Reqs

LEMMA Called ==
  ASSUME NEW y \in Reqs, NEW x, x = [y EXCEPT !.pc = "running"]
  PROVE  /\ x \in Reqs /\ x.pc = "running" /\ x.client = y.client /\ x.place = y.place
         /\ x.before = y.before /\ x.base = y.base /\ x.hurt = y.hurt /\ x.ended = y.ended
  BY DEF Reqs

BegunOf(y, b) == [y EXCEPT !.pc = "running", !.base = b]

LEMMA Begun ==
  ASSUME NEW y \in Reqs, NEW b \in SUBSET Requests
  PROVE  LET x == BegunOf(y, b)
         IN /\ x \in Reqs /\ x.pc = "running" /\ x.client = y.client /\ x.place = y.place
            /\ x.before = y.before /\ x.base = b /\ x.hurt = y.hurt /\ x.ended = y.ended
  BY DEF Reqs, BegunOf

NotifiedOf(y, on, h) == [y EXCEPT !.tool = on, !.hurt = h]

LEMMA Notified ==
  ASSUME NEW y \in Reqs, NEW on \in BOOLEAN, NEW h \in BOOLEAN
  PROVE  LET x == NotifiedOf(y, on, h)
         IN /\ x \in Reqs /\ x.pc = y.pc /\ x.client = y.client /\ x.place = y.place
            /\ x.before = y.before /\ x.base = y.base /\ x.hurt = h /\ x.ended = y.ended
  BY DEF Reqs, NotifiedOf

ClosedOf(y, a, e) ==
  [y EXCEPT !.pc = "done", !.tool = FALSE, !.ended = e, !.base = {}, !.before = {}, !.client = a]

LEMMA Closed ==
  ASSUME NEW y \in Reqs, NEW a \in {"answered", "over"}, NEW e \in BOOLEAN
  PROVE  LET x == ClosedOf(y, a, e)
         IN /\ x \in Reqs /\ x.pc = "done" /\ x.client = a /\ x.place = y.place
            /\ x.before = {} /\ x.hurt = y.hurt /\ x.ended = e
  BY DEF Reqs, ClosedOf

LEMMA AskKeeps ==
  ASSUME ServingInv, NEW r \in Requests, NEW place \in Contexts \cup {MCP}, Ask(r, place)
  PROVE  ServingInv'
  <1>1. /\ req[r].pc = "new" /\ UNCHANGED <<callbacks, ctx, forgot, expiries, observed>>
        /\ req[r] \in Reqs /\ req[r].client # "answered"
    BY ServingShapes DEF Ask, ServingInv, Progress
  <1>2. PICK b : b = (Told \cap Of(place)) \ Of(MCP)
    OBVIOUS
  <1>3. b \in SUBSET Requests /\ \A q \in b : q # r /\ req[q].client = "answered" /\ Streaming(q) /\ req[q].place = place
    BY <1>1, <1>2 DEF Told, Of, Streaming
  <1>4. PICK x : x = AskedOf(req[r], place, b)
    OBVIOUS
  <1>5. /\ x \in Reqs /\ x.pc = "sent" /\ x.place = place /\ x.client = "waits" /\ x.before = b
        /\ x.hurt = req[r].hurt /\ x.ended = req[r].ended
    BY <1>1, <1>3, <1>4, Asked
  <1>6. req' = [req EXCEPT ![r] = x]
    BY <1>2, <1>4 DEF Ask, AskedOf
  <1>7. ~x.ended
    BY <1>1, <1>5 DEF ServingInv, Progress
  <1>8. ServingTypes' /\ Progress' /\ Kept' /\ FollowUpHasHistory'
    BY <1>1, <1>3, <1>5, <1>6, <1>7, ServeStep, ServingShapes DEF observed, Found
  <1>9. Updaters' /\ Alone'
    <2>1. req'[r] = x /\ \A q \in Requests : q # r => req'[q] = req[q]
      BY <1>5, <1>6, PutReq
    <2> QED BY <1>1, <1>5, <2>1, AsideKeeps
  <1> QED BY <1>8, <1>9 DEF ServingInv

LEMMA GiveUpKeeps ==
  ASSUME ServingInv, NEW r \in Requests, GiveUp(r)
  PROVE  ServingInv'
  <1>1. /\ req[r].client = "waits" /\ UNCHANGED <<callbacks, ctx, forgot, expiries, observed>>
        /\ req[r] \in Reqs
    BY ServingShapes DEF GiveUp
  <1>2. PICK x : x = [req[r] EXCEPT !.client = "over"]
    OBVIOUS
  <1>3. /\ x \in Reqs /\ x.client = "over" /\ x.pc = req[r].pc /\ x.place = req[r].place
        /\ x.before = req[r].before /\ x.base = req[r].base /\ x.hurt = req[r].hurt /\ x.ended = req[r].ended
    BY <1>1, <1>2, GivenUp
  <1>4. req' = [req EXCEPT ![r] = x]
    BY <1>2 DEF GiveUp
  <1>5. /\ x.pc = "new" => x.place = MCP
        /\ x.pc = "accepted" => x.place # MCP
        /\ x.ended => x.pc = "done"
        /\ x.pc \in {"accepted", "running"} /\ x.place # MCP => r \in forgot \/ Found(x.place)
    BY <1>3 DEF ServingInv, Progress, Kept, Streaming
  <1>6. /\ \A q \in x.before : q # r /\ req[q].client = "answered" /\ Streaming(q) /\ req[q].place = x.place
        /\ x.pc = "running" => x.before \subseteq x.base \cup forgot
    <2>1. x.before \subseteq Requests
      BY <1>3 DEF Reqs
    <2> QED BY <1>1, <1>3, <2>1 DEF ServingInv, Kept, FollowUpHasHistory, Running
  <1>7. ServingTypes' /\ Progress' /\ Kept' /\ FollowUpHasHistory'
    BY <1>1, <1>3, <1>4, <1>5, <1>6, ServeStep, ServingShapes DEF observed, Found
  <1>8. Updaters' /\ Alone'
    <2>1. req'[r] = x /\ \A q \in Requests : q # r => req'[q] = req[q]
      BY <1>3, <1>4, PutReq
    <2> QED BY <1>1, <1>3, <2>1, AsideKeeps
  <1> QED BY <1>7, <1>8 DEF ServingInv

LEMMA ExpireKeeps ==
  ASSUME ServingInv, NEW c \in Contexts, Expire(c)
  PROVE  ServingInv'
  <1>1. UNCHANGED <<req, callbacks, observed>> /\ ctx \in [Contexts -> Talks]
    BY ServingShapes DEF Expire
  <1>2. PICK y : y = [ctx[c] EXCEPT !.expired = TRUE]
    OBVIOUS
  <1>3. y \in Talks
    BY <1>1, <1>2 DEF Talks
  <1>4. ctx' = [ctx EXCEPT ![c] = y]
    BY <1>2 DEF Expire
  <1>5. ctx' \in [Contexts -> Talks] /\ \A d \in Contexts : d # c => ctx'[d] = ctx[d]
    BY <1>1, <1>3, <1>4
  <1>6. forgot' = forgot \cup Of(c) /\ forgot' \in SUBSET Requests
    BY ServingShapes DEF Expire, Of
  <1>7. ServingTypes' /\ Progress'
    BY <1>1, <1>5, <1>6 DEF ServingInv, ServingTypes, Progress, Streaming, observed
  <1>8. Kept'
    <2>1. ASSUME NEW q \in Requests, Streaming(q)
          PROVE  /\ req[q].pc \in {"accepted", "running"} => Found(req[q].place)' \/ q \in forgot'
                 /\ req[q].client = "answered" =>
                      \/ q \in forgot'
                      \/ Found(req[q].place)' /\ q \in ctx'[req[q].place].history
      <3>1. CASE req[q].place = c
        BY <1>6, <3>1 DEF Of
      <3>2. CASE req[q].place # c
        <4>1. req[q].place \in Contexts
          BY <2>1, PlaceIs, ServingShapes DEF Streaming
        <4>2. ctx'[req[q].place] = ctx[req[q].place]
          BY <1>5, <3>2, <4>1
        <4> QED BY <1>1, <1>6, <2>1, <4>2 DEF ServingInv, Kept, Found
      <3> QED BY <3>1, <3>2
    <2> QED BY <1>1, <2>1 DEF ServingInv, Kept, Streaming
  <1>9. FollowUpHasHistory'
    BY <1>1, <1>6 DEF ServingInv, FollowUpHasHistory, Running
  <1>10. Updaters' /\ Alone'
    BY <1>1, AsideKeeps
  <1> QED BY <1>7, <1>8, <1>9, <1>10 DEF ServingInv

LEMMA AcceptKeeps ==
  ASSUME ServingInv, NEW r \in Requests, Accept(r)
  PROVE  ServingInv'
  <1>1. /\ req[r].pc = "sent" /\ UNCHANGED <<callbacks, forgot, expiries, observed>>
        /\ req[r] \in Reqs /\ req[r].client # "answered" /\ ~req[r].ended /\ req[r].place # MCP
    BY ServingShapes DEF Accept, ServingInv, Progress, Streaming
  <1>2. PICK c \in Contexts : c = req[r].place
    BY <1>1, PlaceIs
  <1>3. PICK x : x = [req[r] EXCEPT !.pc = "accepted"]
    OBVIOUS
  <1>4. /\ x \in Reqs /\ x.pc = "accepted" /\ x.client = req[r].client /\ x.place = c
        /\ x.before = req[r].before /\ x.hurt = req[r].hurt /\ x.ended = req[r].ended
    BY <1>1, <1>2, <1>3, Accepted
  <1>5. req' = [req EXCEPT ![r] = x] /\ ctx' = IF Found(c) THEN ctx ELSE AddContext(c)
    BY <1>2, <1>3 DEF Accept
  <1>6. /\ ctx' \in [Contexts -> Talks] /\ ctx'[c].there /\ ~ctx'[c].expired
        /\ \A d \in Contexts : Found(d) => ctx'[d] = ctx[d]
    BY <1>5, Looking, ServingShapes DEF Found
  <1>7. \A q \in x.before : q # r /\ req[q].client = "answered" /\ Streaming(q) /\ req[q].place = x.place
    <2>1. x.before \subseteq Requests
      BY <1>4 DEF Reqs
    <2> QED BY <1>1, <1>2, <1>4, <2>1 DEF ServingInv, Kept
  <1>8. ServingTypes' /\ Progress' /\ Kept' /\ FollowUpHasHistory'
    <2>1. UNCHANGED <<callbacks, forgot, overlapped, stray, missed, leaked>>
      BY <1>1 DEF observed
    <2>2. /\ callbacks' \in Seq(Requests) /\ overlapped' \in BOOLEAN
          /\ stray' \in SUBSET Requests /\ missed' \in SUBSET Requests
      BY <2>1, ServingShapes
    <2>3. \A d \in Contexts : Found(d) => /\ ctx'[d].there /\ ~ctx'[d].expired
                                          /\ ctx[d].history \subseteq ctx'[d].history
      BY <1>6 DEF Found
    <2>4. x.client # "answered" /\ ~x.ended /\ x.place = c /\ req[r].pc # "done"
      BY <1>1, <1>4
    <2> QED BY <1>1, <1>2, <1>4, <1>5, <1>6, <1>7, <2>1, <2>2, <2>3, <2>4, ServeStep
  <1>9. Updaters' /\ Alone'
    <2>1. req'[r] = x /\ \A q \in Requests : q # r => req'[q] = req[q]
      BY <1>4, <1>5, PutReq
    <2> QED BY <1>1, <1>4, <2>1, AsideKeeps
  <1> QED BY <1>8, <1>9 DEF ServingInv

\* A run begins: its updater, if it has one, is the last of the list.
LEMMA BeginKeeps ==
  ASSUME ServingInv, NEW r \in Requests, Begin(r)
  PROVE  ServingInv'
  <1>1. /\ req[r].pc = "accepted" /\ UNCHANGED <<forgot, expiries, stray, missed, leaked>>
        /\ req[r] \in Reqs /\ req[r].client # "answered" /\ ~req[r].ended /\ req[r].place # MCP
        /\ callbacks' = Append(callbacks, r) /\ r \notin leaked
    BY ServingShapes DEF Begin, ServingInv, Progress, Streaming
  <1>2. PICK c \in Contexts : c = req[r].place
    BY <1>1, PlaceIs
  <1>3. PICK b \in SUBSET Requests : b = IF Found(c) THEN ctx[c].history ELSE {}
    <2>1. ctx[c] \in Talks
      BY ServingShapes
    <2> QED BY <2>1 DEF Talks
  <1>4. PICK x : x = BegunOf(req[r], b)
    OBVIOUS
  <1>5. /\ x \in Reqs /\ x.pc = "running" /\ x.client = req[r].client /\ x.place = c /\ x.base = b
        /\ x.before = req[r].before /\ x.hurt = req[r].hurt /\ x.ended = req[r].ended
    BY <1>1, <1>2, <1>3, <1>4, Begun
  <1>6. req' = [req EXCEPT ![r] = x] /\ ctx' = GetContext(c)
    BY <1>2, <1>3, <1>4 DEF Begin, BegunOf
  <1>7. ctx' \in [Contexts -> Talks] /\ \A d \in Contexts : Found(d) => ctx'[d] = ctx[d]
    BY <1>6, Looking
  <1>8. \A q \in x.before : q # r /\ req[q].client = "answered" /\ Streaming(q) /\ req[q].place = x.place
    <2>1. x.before \subseteq Requests
      BY <1>5 DEF Reqs
    <2> QED BY <1>1, <1>2, <1>5, <2>1 DEF ServingInv, Kept
  <1>9. Found(c) \/ r \in forgot
    BY <1>1, <1>2 DEF ServingInv, Kept, Streaming
  <1>10. x.before \subseteq x.base \cup forgot
    <2> SUFFICES ASSUME NEW q \in x.before PROVE q \in b \cup forgot
      BY <1>5
    <2>1. q \in Requests /\ req[q].client = "answered" /\ Streaming(q) /\ req[q].place = c
      BY <1>5, <1>8 DEF Reqs
    <2>2. \/ q \in forgot
          \/ Found(c) /\ q \in ctx[c].history
      BY <2>1 DEF ServingInv, Kept
    <2> QED BY <1>3, <2>2
  <1>11. overlapped' = (overlapped \/ Running # {}) /\ overlapped' \in BOOLEAN
    BY DEF Begin, Overlaps
  <1>12. ServingTypes' /\ Progress' /\ Kept' /\ FollowUpHasHistory'
    <2>1. callbacks' \in Seq(Requests)
      BY <1>1, ServingShapes
    <2>2. stray' \in SUBSET Requests /\ missed' \in SUBSET Requests /\ leaked' = leaked /\ forgot' = forgot
      BY <1>1, ServingShapes
    <2>3. \A d \in Contexts : Found(d) => /\ ctx'[d].there /\ ~ctx'[d].expired
                                          /\ ctx[d].history \subseteq ctx'[d].history
      BY <1>7 DEF Found
    <2>4. x.client # "answered" /\ ~x.ended /\ x.place = c /\ req[r].pc # "done"
      BY <1>1, <1>5
    <2>5. \/ r \in forgot
          \/ ctx'[c].there /\ ~ctx'[c].expired
      BY <1>9, <2>3
    <2> QED BY <1>1, <1>5, <1>6, <1>7, <1>8, <1>10, <1>11, <2>1, <2>2, <2>3, <2>4, <2>5, ServeStep
  <1>13. req'[r] = x /\ \A q \in Requests : q # r => req'[q] = req[q]
    BY <1>5, <1>6, PutReq
  <1>14. Running' = Running \cup {r} /\ Streams' = Streams \cup {r} /\ r \notin Running /\ r \notin Streams
    BY <1>1, <1>2, <1>5, <1>13 DEF Running, Streams, Streaming
  <1>15. callbacks \in Seq(Requests) /\ Len(callbacks) \in Nat
    BY ServingShapes
  <1>16. /\ Len(callbacks') = Len(callbacks) + 1 /\ callbacks'[Len(callbacks) + 1] = r
         /\ \A i \in 1..Len(callbacks) : callbacks'[i] = callbacks[i]
    BY <1>1, <1>15
  <1>17. Updaters'
    <2>1. IsFiniteSet(Streams \cup {r}) /\ Cardinality(Streams \cup {r}) = Cardinality(Streams) + 1
      BY <1>14, FS_AddElement DEF ServingInv, Updaters
    <2>2. Cardinality(Streams) \in Nat /\ Cardinality(leaked) \in Nat
      BY FS_CardinalityType DEF ServingInv, Updaters
    <2> QED BY <1>1, <1>14, <1>15, <1>16, <2>1, <2>2 DEF ServingInv, Updaters
  <1>18. Alone'
    <2> SUFFICES ASSUME ~overlapped' PROVE Alone'
      BY DEF Alone
    <2>1. ~overlapped /\ Running = {} /\ Streams = {}
      BY <1>11 DEF Streams
    <2>2. \A i \in 1..Len(callbacks) : callbacks[i] \in leaked
      BY <2>1 DEF ServingInv, Alone
    <2>3. Running' = {r} /\ Streams' = {r}
      BY <1>14, <2>1
    <2>4. /\ Len(callbacks') > 0 /\ callbacks'[Len(callbacks')] = r
          /\ \A i \in 1..(Len(callbacks') - 1) : callbacks'[i] \in leaked'
          /\ \A i \in 1..Len(callbacks') : callbacks'[i] \in leaked' \/ callbacks'[i] = r
      <3>1. PICK n \in Nat : n = Len(callbacks)
        BY <1>15
      <3>2. Len(callbacks') = n + 1 /\ \A i \in 1..(n + 1) : i = n + 1 \/ i \in 1..n
        BY <1>16, <3>1
      <3>3. 1..(n + 1 - 1) = 1..n /\ n + 1 > 0
        BY <3>1
      <3> QED BY <1>1, <1>16, <2>2, <3>1, <3>2, <3>3
    <2>5. SequentialIsClean'
      BY <1>1, <1>5, <1>13, <2>1 DEF ServingInv, Alone, SequentialIsClean
    <2> QED BY <2>3, <2>4, <2>5 DEF Alone
  <1> QED BY <1>12, <1>17, <1>18 DEF ServingInv

LEMMA CallKeeps ==
  ASSUME ServingInv, NEW r \in Requests, CallOverMCP(r)
  PROVE  ServingInv'
  <1>1. /\ req[r].pc = "sent" /\ UNCHANGED <<callbacks, ctx, forgot, expiries, stray, missed, leaked>>
        /\ req[r] \in Reqs /\ req[r].client # "answered" /\ ~req[r].ended /\ req[r].place = MCP
    BY ServingShapes DEF CallOverMCP, ServingInv, Progress, Streaming
  <1>2. PICK x : x = [req[r] EXCEPT !.pc = "running"]
    OBVIOUS
  <1>3. /\ x \in Reqs /\ x.pc = "running" /\ x.client = req[r].client /\ x.place = MCP
        /\ x.before = req[r].before /\ x.hurt = req[r].hurt /\ x.ended = req[r].ended
    BY <1>1, <1>2, Called
  <1>4. req' = [req EXCEPT ![r] = x]
    BY <1>2 DEF CallOverMCP
  <1>5. x.before = {}
    <2>1. x.before \subseteq Requests
      BY <1>3 DEF Reqs
    <2> QED BY <1>1, <1>3, <2>1 DEF ServingInv, Kept, Streaming
  <1>6. overlapped' = (overlapped \/ Running # {}) /\ overlapped' \in BOOLEAN
    BY DEF CallOverMCP, Overlaps
  <1>7. ServingTypes' /\ Progress' /\ Kept' /\ FollowUpHasHistory'
    <2>1. callbacks' \in Seq(Requests) /\ ctx' \in [Contexts -> Talks]
      BY <1>1, ServingShapes
    <2>2. stray' \in SUBSET Requests /\ missed' \in SUBSET Requests /\ leaked' = leaked /\ forgot' = forgot
      BY <1>1, ServingShapes
    <2>3. \A d \in Contexts : Found(d) => /\ ctx'[d].there /\ ~ctx'[d].expired
                                          /\ ctx[d].history \subseteq ctx'[d].history
      BY <1>1 DEF Found
    <2>4. x.client # "answered" /\ ~x.ended /\ req[r].pc # "done"
      BY <1>1, <1>3
    <2> QED BY <1>1, <1>3, <1>4, <1>5, <1>6, <2>1, <2>2, <2>3, <2>4, ServeStep
  <1>8. req'[r] = x /\ \A q \in Requests : q # r => req'[q] = req[q]
    BY <1>3, <1>4, PutReq
  <1>9. Running' = Running \cup {r} /\ Streams' = Streams
    BY <1>1, <1>3, <1>8 DEF Running, Streams, Streaming
  <1>10. Updaters'
    BY <1>1, <1>9 DEF ServingInv, Updaters
  <1>11. Alone'
    <2> SUFFICES ASSUME ~overlapped' PROVE Alone'
      BY DEF Alone
    <2>1. ~overlapped /\ Running = {} /\ Streams = {}
      BY <1>6 DEF Streams
    <2>2. SequentialIsClean'
      BY <1>1, <1>3, <1>8, <2>1 DEF ServingInv, Alone, SequentialIsClean
    <2> QED BY <1>1, <1>9, <2>1, <2>2 DEF ServingInv, Alone
  <1> QED BY <1>7, <1>10, <1>11 DEF ServingInv

-----------------------------------------------------------------------------
(***************************************************************************)
(* The run, and its end.                                                   *)
(***************************************************************************)

\* A list with nobody on it that refuses is told to the end.
LEMMA AllReached ==
  ASSUME callbacks \in Seq(Requests), \A i \in 1..Len(callbacks) : ~req[callbacks[i]].ended
  PROVE  Refuses = 0 /\ Reached = {callbacks[i] : i \in 1..Len(callbacks)}
  <1>1. {i \in 1..Len(callbacks) : req[callbacks[i]].ended} = {}
    OBVIOUS
  <1>2. Refuses = 0
    BY <1>1 DEF Refuses, SelectInSeq
  <1>3. DOMAIN callbacks = 1..Len(callbacks)
    OBVIOUS
  <1> QED BY <1>2, <1>3 DEF Reached, ToSet

LEMMA ToolKeeps ==
  ASSUME ServingInv, NEW r \in Requests, NEW on \in BOOLEAN, ToolEvent(r, on)
  PROVE  ServingInv'
  <1>1. /\ req[r].pc = "running" /\ ~req[r].hurt
        /\ UNCHANGED <<callbacks, ctx, forgot, expiries, overlapped, leaked>>
        /\ req[r] \in Reqs /\ req[r].client # "answered" /\ ~req[r].ended /\ r \notin leaked
    BY ServingShapes DEF ToolEvent, ServingInv, Progress
  <1>2. PICK h \in BOOLEAN : h = (Refuses # 0)
    OBVIOUS
  <1>3. PICK x : x = NotifiedOf(req[r], on, h)
    OBVIOUS
  <1>4. /\ x \in Reqs /\ x.pc = "running" /\ x.client = req[r].client /\ x.place = req[r].place
        /\ x.before = req[r].before /\ x.base = req[r].base /\ x.hurt = h /\ x.ended = req[r].ended
    BY <1>1, <1>3, Notified
  <1>5. req' = [req EXCEPT ![r] = x]
    BY <1>2, <1>3 DEF ToolEvent, NotifiedOf
  <1>6. stray' \in {stray, stray \cup (Reached \ {r})} /\ missed' \in {missed, missed \cup ({r} \ Reached)}
    BY DEF ToolEvent
  <1>7. stray' \in SUBSET Requests /\ missed' \in SUBSET Requests
    <2>1. Reached \subseteq Requests
      <3>1. \A n \in Nat : n <= Len(callbacks) + 1 => SubSeq(callbacks, 1, n - 1) \in Seq(Requests)
        BY ServingShapes
      <3>2. Refuses # 0 => Refuses \in 1..Len(callbacks)
        <4>1. PICK I : I = {i \in 1..Len(callbacks) : req[callbacks[i]].ended}
          OBVIOUS
        <4>2. Refuses = IF I # {} THEN Min(I) ELSE 0
          BY <4>1 DEF Refuses, SelectInSeq
        <4>3. I # {} => Min(I) \in I
          <5>1. I \subseteq Nat
            BY <4>1
          <5> QED BY <5>1, Least
        <4> QED BY <4>1, <4>2, <4>3
      <3>3. Refuses # 0 => SubSeq(callbacks, 1, Refuses - 1) \in Seq(Requests)
        BY <3>1, <3>2, ServingShapes
      <3>4. \A s \in Seq(Requests) : ToSet(s) \subseteq Requests
        BY DEF ToSet
      <3> QED BY <3>3, <3>4, ServingShapes DEF Reached
    <2> QED BY <1>6, <2>1, ServingShapes
  <1>8. \A q \in x.before : q # r /\ req[q].client = "answered" /\ Streaming(q) /\ req[q].place = x.place
    <2>1. x.before \subseteq Requests
      BY <1>4 DEF Reqs
    <2> QED BY <1>1, <1>4, <2>1 DEF ServingInv, Kept
  <1>9. ServingTypes' /\ Progress' /\ Kept' /\ FollowUpHasHistory'
    <2>1. callbacks' \in Seq(Requests) /\ ctx' \in [Contexts -> Talks] /\ overlapped' \in BOOLEAN
      BY <1>1, ServingShapes
    <2>2. \A d \in Contexts : Found(d) => /\ ctx'[d].there /\ ~ctx'[d].expired
                                          /\ ctx[d].history \subseteq ctx'[d].history
      BY <1>1 DEF Found
    <2>3. x.place # MCP => \/ r \in forgot
                           \/ ctx'[x.place].there /\ ~ctx'[x.place].expired
      BY <1>1, <1>4 DEF ServingInv, Kept, Streaming, Found
    <2>4. x.client # "answered" /\ ~x.ended /\ req[r].pc # "done" /\ leaked' = leaked /\ forgot' = forgot
      BY <1>1, <1>4
    <2>5. x.before \subseteq x.base \cup forgot
      BY <1>1, <1>4 DEF ServingInv, FollowUpHasHistory, Running
    <2> QED BY <1>1, <1>4, <1>5, <1>7, <1>8, <2>1, <2>2, <2>3, <2>4, <2>5, ServeStep
  <1>10. req'[r] = x /\ \A q \in Requests : q # r => req'[q] = req[q]
    BY <1>4, <1>5, PutReq
  <1>11. Running' = Running /\ Streams' = Streams /\ r \in Running
    BY <1>1, <1>4, <1>10 DEF Running, Streams, Streaming
  <1>12. Updaters'
    BY <1>1, <1>11 DEF ServingInv, Updaters
  <1>13. Alone'
    <2> SUFFICES ASSUME ~overlapped PROVE Alone'
      BY <1>1 DEF Alone
    <2>1. /\ \A q \in Running : q = r
          /\ \A i \in 1..Len(callbacks) : callbacks[i] \in leaked \/ callbacks[i] \in Streams
          /\ SequentialIsClean
      BY <1>11 DEF ServingInv, Alone
    <2>2. \A i \in 1..Len(callbacks) : ~req[callbacks[i]].ended
      <3> TAKE i \in 1..Len(callbacks)
      <3>1. callbacks[i] \in Requests
        BY ServingShapes
      <3>2. CASE callbacks[i] \in leaked
        BY <3>1, <3>2 DEF ServingInv, Progress
      <3>3. CASE callbacks[i] \in Streams
        BY <3>1, <3>3 DEF ServingInv, Progress, Streams, Running
      <3> QED BY <2>1, <3>2, <3>3
    <2>3. Refuses = 0 /\ Reached = {callbacks[i] : i \in 1..Len(callbacks)}
      BY <2>2, AllReached, ServingShapes
    <2>4. Reached \ {r} \subseteq leaked
      BY <2>1, <2>3 DEF Streams
    <2>5. stray' \subseteq leaked
      BY <1>6, <2>1, <2>4 DEF SequentialIsClean
    <2>6. missed' = {}
      <3>1. Streaming(r) => r \in Reached
        <4>1. Streaming(r) => r \in Streams
          BY <1>11 DEF Streams
        <4>2. r \in Streams => Len(callbacks) > 0 /\ callbacks[Len(callbacks)] = r
          BY DEF ServingInv, Alone
        <4>3. Len(callbacks) > 0 => Len(callbacks) \in 1..Len(callbacks)
          BY ServingShapes
        <4> QED BY <2>3, <4>1, <4>2, <4>3
      <3>2. missed' = IF Streaming(r) THEN missed \cup ({r} \ Reached) ELSE missed
        BY DEF ToolEvent
      <3> QED BY <2>1, <3>1, <3>2 DEF SequentialIsClean
    <2>7. ~h
      BY <1>2, <2>3
    <2>8. SequentialIsClean'
      BY <1>1, <1>4, <1>10, <2>1, <2>5, <2>6, <2>7 DEF SequentialIsClean
    <2> QED BY <1>1, <1>11, <2>8 DEF ServingInv, Alone
  <1> QED BY <1>9, <1>12, <1>13 DEF ServingInv

\* A run with an updater ends: the last of the list goes, or the run's own stays
\* there for good.
LEMMA EndsAlone ==
  ASSUME ServingInv, NEW r \in Requests, NEW x \in Reqs, req' = [req EXCEPT ![r] = x],
         req[r].pc = "running", Streaming(r), x.pc = "done", x.hurt = req[r].hurt,
         UNCHANGED <<overlapped, stray, missed>>,
         \/ callbacks' = Front(callbacks) /\ leaked' = leaked
         \/ callbacks' = callbacks /\ leaked' = leaked \cup {r}
  PROVE  Updaters' /\ Alone' /\ callbacks' \in Seq(Requests)
  <1>1. req'[r] = x /\ \A q \in Requests : q # r => req'[q] = req[q]
    BY PutReq
  <1>2. r \in Running /\ r \in Streams /\ r \notin leaked
    BY DEF Running, Streams, ServingInv, Progress
  <1>3. Running' = Running \ {r} /\ Streams' = Streams \ {r}
    BY <1>1 DEF Running, Streams, Streaming
  <1>4. /\ IsFiniteSet(Streams') /\ Cardinality(Streams') = Cardinality(Streams) - 1
        /\ IsFiniteSet(leaked) /\ Cardinality(leaked) \in Nat /\ Cardinality(Streams) \in Nat
    BY <1>2, <1>3, FS_RemoveElement, FS_CardinalityType DEF ServingInv, Updaters
  <1>5. Cardinality(Streams) > 0
    <2>1. Cardinality(Streams') \in Nat
      BY <1>4, FS_CardinalityType
    <2> QED BY <1>4, <2>1
  <1>6. PICK n \in Nat : n = Len(callbacks)
    BY ServingShapes
  <1>7. n = Cardinality(Streams) + Cardinality(leaked) /\ n > 0
    BY <1>4, <1>5, <1>6 DEF ServingInv, Updaters
  <1>8. ~overlapped =>
          /\ Running' = {} /\ Streams' = {} /\ SequentialIsClean
          /\ \A i \in 1..n : callbacks[i] \in leaked \cup {r}
          /\ \A i \in 1..(n - 1) : callbacks[i] \in leaked
    <2> SUFFICES ASSUME ~overlapped
                 PROVE  /\ Running' = {} /\ Streams' = {} /\ SequentialIsClean
                        /\ \A i \in 1..n : callbacks[i] \in leaked \cup {r}
                        /\ \A i \in 1..(n - 1) : callbacks[i] \in leaked
      OBVIOUS
    <2>1. \A q \in Running : q = r
      BY <1>2 DEF ServingInv, Alone
    <2>2. \A i \in 1..n : callbacks[i] \in leaked \/ callbacks[i] = r
      BY <1>6, <2>1 DEF ServingInv, Alone, Streams
    <2>3. \A i \in 1..(n - 1) : callbacks[i] \in leaked
      BY <1>2, <1>6 DEF ServingInv, Alone
    <2> QED BY <1>3, <2>1, <2>2, <2>3 DEF ServingInv, Alone, Streams
  <1>9. CASE callbacks' = Front(callbacks) /\ leaked' = leaked
    <2>1. /\ callbacks' \in Seq(Requests) /\ Len(callbacks') = n - 1
          /\ \A i \in 1..(n - 1) : callbacks'[i] = callbacks[i]
      BY <1>6, <1>7, <1>9, FrontIs, ServingShapes
    <2>2. Updaters'
      BY <1>4, <1>7, <1>9, <2>1 DEF Updaters
    <2>3. Alone'
      <3> SUFFICES ASSUME ~overlapped PROVE Alone'
        BY DEF Alone
      <3>1. SequentialIsClean'
        BY <1>1, <1>8, <1>9 DEF SequentialIsClean
      <3>2. \A i \in 1..Len(callbacks') : callbacks'[i] \in leaked'
        BY <1>8, <1>9, <2>1
      <3> QED BY <1>8, <3>1, <3>2 DEF Alone
    <2> QED BY <2>1, <2>2, <2>3
  <1>10. CASE callbacks' = callbacks /\ leaked' = leaked \cup {r}
    <2>1. IsFiniteSet(leaked') /\ Cardinality(leaked') = Cardinality(leaked) + 1
      BY <1>2, <1>4, <1>10, FS_AddElement
    <2>2. Len(callbacks') = Cardinality(Streams') + Cardinality(leaked')
      <3>1. PICK p, q \in Nat : p = Cardinality(Streams) /\ q = Cardinality(leaked)
        BY <1>4
      <3>2. Cardinality(Streams') = p - 1 /\ Cardinality(leaked') = q + 1 /\ n = p + q
        BY <1>4, <1>7, <2>1, <3>1
      <3>3. p + q = (p - 1) + (q + 1)
        BY <3>1
      <3> QED BY <1>6, <1>10, <3>2, <3>3
    <2>4. Updaters'
      BY <1>4, <2>1, <2>2 DEF Updaters
    <2>3. Alone'
      <3> SUFFICES ASSUME ~overlapped PROVE Alone'
        BY DEF Alone
      <3>1. SequentialIsClean'
        BY <1>1, <1>8, <1>10 DEF SequentialIsClean
      <3>2. \A i \in 1..Len(callbacks') : callbacks'[i] \in leaked'
        BY <1>6, <1>8, <1>10
      <3> QED BY <1>8, <3>1, <3>2 DEF Alone
    <2> QED BY <1>10, <2>3, <2>4, ServingShapes
  <1> QED BY <1>9, <1>10

LEMMA EndKeeps ==
  ASSUME ServingInv, NEW r \in Requests, RunEnds(r)
  PROVE  ServingInv'
  <1>1. /\ req[r].pc = "running" /\ Streaming(r) /\ req[r].place # MCP
        /\ UNCHANGED <<forgot, expiries, overlapped, stray, missed>>
        /\ req[r] \in Reqs /\ req[r].client # "answered" /\ ~req[r].ended /\ r \notin leaked
    BY ServingShapes DEF RunEnds, ServingInv, Progress, Streaming
  <1>2. PICK c \in Contexts : c = req[r].place
    BY <1>1, PlaceIs
  <1>3. PICK a \in {"answered", "over"}, e \in BOOLEAN :
          /\ req' = [req EXCEPT ![r] = ClosedOf(req[r], a, e)]
          /\ \/ callbacks' = Front(callbacks) /\ leaked' = leaked /\ ctx' = Remember(r, c)
             \/ /\ callbacks' = Front(callbacks) /\ leaked' = leaked /\ a = "over"
                /\ ctx' = GetContext(c)
             \/ /\ callbacks' = callbacks /\ leaked' = leaked \cup {r} /\ a = "over" /\ ~e
                /\ ctx' = ctx
    <2>1. \A answer, e :
            Close(r, answer, e) =>
              req' = [req EXCEPT ![r] = ClosedOf(req[r], IF req[r].client = "waits" THEN answer ELSE "over", e)]
      BY DEF Close, ClosedOf
    <2>2. CASE AnswerEnvelope(r)
      <3>1. PICK state \in {"completed", "failed", "input_required"} :
              Close(r, "answered", state # "input_required")
        BY <2>2 DEF AnswerEnvelope
      <3>2. PICK e \in BOOLEAN : e = (state # "input_required")
        OBVIOUS
      <3>3. PICK a : a = IF req[r].client = "waits" THEN "answered" ELSE "over"
        OBVIOUS
      <3>4. req' = [req EXCEPT ![r] = ClosedOf(req[r], a, e)] /\ a \in {"answered", "over"}
        BY <2>1, <3>1, <3>2, <3>3
      <3> QED BY <1>2, <2>2, <3>4 DEF AnswerEnvelope, Pop
    <2>3. ASSUME Close(r, "over", FALSE)
          PROVE  req' = [req EXCEPT ![r] = ClosedOf(req[r], "over", FALSE)]
      BY <2>1, <2>3
    <2>4. CASE AnswerError(r)
      BY <1>2, <2>3, <2>4 DEF AnswerError, Pop
    <2>5. CASE Cancelled(r)
      BY <1>2, <2>3, <2>5 DEF Cancelled
    <2> QED BY <2>2, <2>4, <2>5 DEF RunEnds
  <1>4. PICK x : x = ClosedOf(req[r], a, e)
    OBVIOUS
  <1>5. /\ x \in Reqs /\ x.pc = "done" /\ x.client = a /\ x.place = c
        /\ x.before = {} /\ x.hurt = req[r].hurt /\ x.ended = e
    BY <1>1, <1>2, <1>4, Closed
  <1>6. req' = [req EXCEPT ![r] = x]
    BY <1>3, <1>4
  <1>7. Updaters' /\ Alone' /\ callbacks' \in Seq(Requests)
    BY <1>1, <1>3, <1>5, <1>6, EndsAlone
  <1>8. Found(c) \/ r \in forgot
    BY <1>1, <1>2 DEF ServingInv, Kept
  <1>9. /\ ctx' \in [Contexts -> Talks]
        /\ \A d \in Contexts : Found(d) => /\ ctx'[d].there /\ ~ctx'[d].expired
                                           /\ ctx[d].history \subseteq ctx'[d].history
        /\ a = "answered" /\ Found(c) => r \in ctx'[c].history
    <2>1. CASE ctx' = Remember(r, c)
      BY <2>1, Looking
    <2>2. CASE ctx' = GetContext(c) /\ a = "over"
      BY <2>2, Looking DEF Found
    <2>3. CASE ctx' = ctx /\ a = "over"
      BY <2>3, ServingShapes DEF Found
    <2> QED BY <1>3, <2>1, <2>2, <2>3
  <1>10. x.client = "answered" => \/ r \in forgot
                                  \/ ctx'[c].there /\ ~ctx'[c].expired /\ r \in ctx'[c].history
    BY <1>5, <1>8, <1>9
  <1>11. \/ leaked' = leaked
         \/ leaked' = leaked \cup {r} /\ x.pc = "done" /\ ~x.ended
    BY <1>3, <1>5
  <1>12. /\ forgot' = forgot /\ overlapped' \in BOOLEAN
         /\ stray' \in SUBSET Requests /\ missed' \in SUBSET Requests
    BY <1>1, ServingShapes
  <1>13. ServingTypes' /\ Progress' /\ Kept' /\ FollowUpHasHistory'
    BY <1>1, <1>5, <1>6, <1>7, <1>9, <1>10, <1>11, <1>12, ServeStep
  <1> QED BY <1>7, <1>13 DEF ServingInv

LEMMA EndOverMCPKeeps ==
  ASSUME ServingInv, NEW r \in Requests, RunEndsOverMCP(r)
  PROVE  ServingInv'
  <1>1. /\ req[r].pc = "running" /\ req[r].place = MCP
        /\ UNCHANGED <<callbacks, ctx, forgot, overlapped, stray, missed, leaked>>
        /\ req[r] \in Reqs /\ req[r].client # "answered" /\ r \notin leaked
    BY ServingShapes DEF RunEndsOverMCP, ServingInv, Progress, Streaming, observed
  <1>2. PICK a \in {"answered", "over"} : req' = [req EXCEPT ![r] = ClosedOf(req[r], a, FALSE)]
    <2>1. PICK answer \in {"answered", "over"} : Close(r, answer, FALSE)
      BY DEF RunEndsOverMCP
    <2>2. PICK a : a = IF req[r].client = "waits" THEN answer ELSE "over"
      OBVIOUS
    <2> QED BY <2>1, <2>2 DEF Close, ClosedOf
  <1>3. PICK x : x = ClosedOf(req[r], a, FALSE)
    OBVIOUS
  <1>4. /\ x \in Reqs /\ x.pc = "done" /\ x.client = a /\ x.place = MCP
        /\ x.before = {} /\ x.hurt = req[r].hurt /\ ~x.ended
    BY <1>1, <1>3, Closed
  <1>5. req' = [req EXCEPT ![r] = x]
    BY <1>2, <1>3
  <1>6. /\ callbacks' \in Seq(Requests) /\ ctx' \in [Contexts -> Talks] /\ overlapped' \in BOOLEAN
        /\ stray' \in SUBSET Requests /\ missed' \in SUBSET Requests
        /\ leaked' = leaked /\ forgot' = forgot
        /\ \A d \in Contexts : Found(d) => /\ ctx'[d].there /\ ~ctx'[d].expired
                                           /\ ctx[d].history \subseteq ctx'[d].history
    BY <1>1, ServingShapes DEF Found
  <1>7. ServingTypes' /\ Progress' /\ Kept' /\ FollowUpHasHistory'
    BY <1>1, <1>4, <1>5, <1>6, ServeStep
  <1>8. req'[r] = x /\ \A q \in Requests : q # r => req'[q] = req[q]
    BY <1>4, <1>5, PutReq
  <1>9. Running' \subseteq Running /\ Streams' = Streams
    BY <1>1, <1>4, <1>8 DEF Running, Streams, Streaming
  <1>10. Updaters'
    BY <1>1, <1>9 DEF ServingInv, Updaters
  <1>11. Alone'
    <2> SUFFICES ASSUME ~overlapped PROVE Alone'
      BY <1>1 DEF Alone
    <2>1. SequentialIsClean'
      BY <1>1, <1>4, <1>8 DEF ServingInv, Alone, SequentialIsClean
    <2> QED BY <1>1, <1>9, <2>1 DEF ServingInv, Alone
  <1> QED BY <1>7, <1>10, <1>11 DEF ServingInv

-----------------------------------------------------------------------------
LEMMA ServingStarts == ASSUME ServingInit PROVE ServingInv
  <1>1. /\ req = [r \in Requests |-> NewRequest] /\ callbacks = <<>>
        /\ ctx = [c \in Contexts |-> Absent] /\ forgot = {} /\ overlapped = FALSE
        /\ stray = {} /\ missed = {} /\ leaked = {}
    BY DEF ServingInit
  <1>2. NewRequest \in Reqs /\ Absent \in Talks
    BY DEF NewRequest, Reqs, Absent, Talks
  <1>3. /\ \A r \in Requests : /\ req[r].pc = "new" /\ req[r].place = MCP /\ req[r].client = "idle"
                               /\ ~req[r].hurt /\ ~req[r].ended /\ req[r].before = {}
    BY <1>1 DEF NewRequest
  <1>4. Running = {} /\ Streams = {} /\ Len(callbacks) = 0
    BY <1>1, <1>3 DEF Running, Streams
  <1>5. callbacks \in Seq(Requests)
    BY <1>1
  <1>6. ServingTypes
    BY <1>1, <1>2, <1>5 DEF ServingTypes
  <1>7. Progress /\ Kept /\ FollowUpHasHistory
    BY <1>1, <1>3, <1>4 DEF Progress, Kept, FollowUpHasHistory, Streaming
  <1>8. Updaters
    BY <1>1, <1>4, FS_EmptySet DEF Updaters
  <1>9. Alone
    BY <1>1, <1>3, <1>4 DEF Alone, SequentialIsClean
  <1> QED BY <1>6, <1>7, <1>8, <1>9 DEF ServingInv

LEMMA ServingStep ==
  ASSUME ServingInv, [ServingNext]_servingVars
  PROVE  ServingInv'
  <1>1. CASE UNCHANGED servingVars
    <2>1. UNCHANGED <<req, ctx, callbacks, forgot, overlapped, stray, missed, leaked>>
      BY <1>1 DEF servingVars
    <2>2. ServingTypes' /\ Progress' /\ Kept' /\ FollowUpHasHistory'
      BY <2>1 DEF ServingInv, ServingTypes, Progress, Kept, FollowUpHasHistory, Running, Streaming, Found
    <2>3. Updaters' /\ Alone'
      BY <2>1, AsideKeeps DEF observed
    <2> QED BY <2>2, <2>3 DEF ServingInv
  <1>2. ASSUME NEW c \in Contexts, Expire(c) PROVE ServingInv'
    BY <1>2, ExpireKeeps
  <1>3. ASSUME NEW r \in Requests, NEW place \in Contexts \cup {MCP}, Ask(r, place) PROVE ServingInv'
    BY <1>3, AskKeeps
  <1>4. ASSUME NEW r \in Requests, GiveUp(r) \/ Accept(r) \/ Begin(r) \/ CallOverMCP(r)
        PROVE  ServingInv'
    BY <1>4, GiveUpKeeps, AcceptKeeps, BeginKeeps, CallKeeps
  <1>5. ASSUME NEW r \in Requests, NEW on \in BOOLEAN, ToolEvent(r, on) PROVE ServingInv'
    BY <1>5, ToolKeeps
  <1>6. ASSUME NEW r \in Requests, RunEnds(r) \/ RunEndsOverMCP(r) PROVE ServingInv'
    BY <1>6, EndKeeps, EndOverMCPKeeps
  <1> QED BY <1>1, <1>2, <1>3, <1>4, <1>5, <1>6 DEF ServingNext

\* Whatever the requests and conversations: the list holds an updater for each
\* run under way and each run that was cancelled, no other; alone, a run has the
\* list's last entry; and an answered turn stays in its context's history for as
\* long as the context is there.
THEOREM ServingKeepsInv == ServingSpec => []ServingInv
  <1>1. ServingInit => ServingInv
    BY ServingStarts
  <1>2. ServingInv /\ [ServingNext]_servingVars => ServingInv'
    BY ServingStep
  <1> QED BY <1>1, <1>2, PTL DEF ServingSpec

\* execute removes only updaters that it appended, as many as runs end; and as
\* long as no two runs overlap, a run's tool calls are told to its own client
\* and to no other that still listens.
THEOREM UpdatersDoOwn == ServingSpec => []UpdatersAreOwn
  <1>1. ServingInv => UpdatersAreOwn
    <2> SUFFICES ASSUME ServingInv PROVE UpdatersAreOwn
      OBVIOUS
    <2>1. SequentialIsClean
      BY DEF ServingInv, Alone, SequentialIsClean
    <2>2. UpdatersAccounted
      BY DEF ServingInv, Updaters, UpdatersAccounted, Streams
    <2> QED BY <2>1, <2>2 DEF UpdatersAreOwn
  <1> QED BY <1>1, ServingKeepsInv, PTL

\* A request that follows an answered one is run with its turn in the history,
\* unless the context's time ran out in between.
THEOREM FollowUpsSee == ServingSpec => []FollowUpHasHistory
  <1>1. ServingInv => FollowUpHasHistory
    BY DEF ServingInv
  <1> QED BY <1>1, ServingKeepsInv, PTL

-----------------------------------------------------------------------------
(***************************************************************************)
(* AgentRun: concurrent runs of one agent.                                 *)
(***************************************************************************)

\* The states in which a run's Context is under its trace id, and those in which
\* it calls the framework.
Under == {"before", "running", "shaping", "leaving"}
Asks == {"running", "shaping"}

NotShared == "shared" \notin trouble
NotUpdated == NotShared /\ "updated" \notin trouble
\* Nothing of what TraceIsWhole makes exceptions for has happened.
Untroubled == trouble \cap {"shared", "parallel", "updated", "config"} = {}

RunType ==
    /\ framework \in RunFrameworks
    /\ gen \in 0..MaxUpdates
    /\ finals \in [0..MaxUpdates -> BOOLEAN] /\ saved \in BOOLEAN
    /\ layers \in [0..MaxUpdates -> [Entries -> Nat]]
    /\ modelLayers \in Nat
    /\ original \in [Entries \cup {"model"} -> Nat]
    /\ contexts \in [Ids -> Runs \cup {Nil}]
    /\ reusedDict \in Nat
    /\ pc \in [Runs -> Under \cup {"idle", "after", "done"}]
    /\ id \in [Runs -> Ids \cup {Nil}]
    /\ \A r \in Runs : pc[r] \in Under => id[r] \in {r, Outer}
    /\ agentOf \in [Runs -> 0..MaxUpdates]
    /\ heard \in [Runs -> Nat]
    /\ DOMAIN fault = Runs /\ DOMAIN outcome = Runs /\ DOMAIN got = Runs
    /\ DOMAIN span = Runs /\ DOMAIN trace = Runs
    /\ DOMAIN open = Runs /\ DOMAIN calls = Runs

\* What the framework's wrapper does not wrap has no wrapper, but for openai's
\* tools, which the wrapped get_all_tools wraps once.
OpenAITool(e) == e = "tool" /\ framework = "openai"
OnlyItsOwn ==
    /\ \A g \in 0..MaxUpdates, e \in Entries :
         e \notin Wraps => layers[g][e] = 0 \/ (OpenAITool(e) /\ layers[g][e] = 1)
    /\ "model" \notin Wraps => modelLayers = 0
    /\ \A e \in Entries \cup {"model"} :
         e \notin Wraps => original[e] = 0 \/ (OpenAITool(e) /\ original[e] = 1)

\* The saved originals are the framework's own functions.
Stays(e) == e = "tool" /\ framework \in {"agno", "openai"}
OriginalsBare ==
    NotShared => \A e \in Entries \cup {"model"} : original[e] = 0 \/ Stays(e)

\* While nobody is registered there is no wrapper.
BareWhenIdle ==
    NotShared /\ Registered = {} =>
      /\ modelLayers = 0
      /\ \A e \in Entries : layers[gen][e] = 0 \/ Stays(e)

\* While somebody is, there is one around each of the framework's entry points.
WrappedWhenBusy ==
    NotUpdated /\ Registered # {} =>
      /\ "model" \in Wraps => modelLayers = 1
      /\ \A e \in Entries : e \in Wraps =>
           layers[gen][e] = 1 \/ (Stays(e) /\ layers[gen][e] # 0)

SavedWhenBusy ==
    framework = "llama_index" /\ "updated" \notin trouble /\ Registered # {} =>
      (finals[gen] => saved)

\* A run that is not over has its Context under its trace id.
OwnContext == NotShared => \A r \in Runs : pc[r] \in Under => contexts[id[r]] = r

\* A Context is that of a run that is not over.
NobodyLeftBehind ==
    NotUpdated /\ "cancelled" \notin trouble =>
      \A i \in Ids : contexts[i] # Nil => pc[contexts[i]] \in Under /\ id[contexts[i]] = i

\* What the run took when it began is still what is there.
SinceBegun(r) ==
    pc[r] \in Asks =>
      /\ NotUpdated => agentOf[r] = gen
      /\ Untroubled /\ framework = "langchain" => heard[r] = 1
      /\ NotUpdated /\ framework = "openai" /\ (calls[r] # <<>> \/ open[r] # {}) =>
           layers[gen]["tool"] = 1
      /\ pc[r] = "shaping" => framework \in {"langchain", "llama_index"}

\* The one call in flight is the current span of the run's own Context and will
\* be added to its trace once; the trace has the calls that came back.
TraceOf(r, s) == [i \in DOMAIN s |-> <<r, s[i]>>]
InFlight(r) ==
    /\ \A c \in open[r] : /\ c.no \in Nat /\ c.times = 1 /\ c.context = r
                          /\ span[r] = <<r, c.no>> /\ pc[r] \in Asks
    /\ \A c, d \in open[r] : c = d
    /\ calls[r] \in Seq(Nat)
    /\ trace[r] = TraceOf(r, calls[r])
    /\ pc[r] = "after" => got[r] = r

FaultHasCause(r) ==
    fault[r] \in {"loop", "lost"} => "shared" \in trouble \/ framework = "agno"

\* A run that has not begun has called nothing.
Fresh(r) == pc[r] \in {"idle", "before"} => calls[r] = <<>> /\ open[r] = {}

Fine(r) == Fresh(r) /\ SinceBegun(r) /\ (Untroubled => InFlight(r)) /\ FaultHasCause(r)

AgentPart == OnlyItsOwn /\ OriginalsBare /\ BareWhenIdle /\ WrappedWhenBusy /\ SavedWhenBusy
ContextPart == OwnContext /\ NobodyLeftBehind

\* The invariant the theorems about AgentRun rest on.
RunInv == RunType /\ AgentPart /\ ContextPart /\ \A r \in Runs : Fine(r)

-----------------------------------------------------------------------------
(* What the frameworks wrap and put back.                                  *)

LEMMA WrapsIs ==
  ASSUME framework \in RunFrameworks
  PROVE  /\ "llm" \in Wraps
         /\ "tools" \in Wraps <=> framework = "openai"
         /\ "tool" \in Wraps <=> framework \in {"agno", "google", "smolagents", "llama_index"}
         /\ "model" \in Wraps <=> framework \in {"langchain", "llama_index"}
         /\ "llm" \in Restores
         /\ "tools" \in Restores <=> framework = "openai"
         /\ "tool" \in Restores <=>
              framework \in {"google", "openai", "smolagents", "llama_index"}
         /\ "model" \in Restores <=>
              framework = "langchain" \/ (framework = "llama_index" /\ ~LlamaIndexRaises)
  <1>1. framework \in {"agno", "google", "langchain", "llama_index", "openai", "smolagents"}
    BY AgentRunAssumption
  <1>2. CASE framework = "agno"
    BY <1>2 DEF Wraps, Restores, AgnoWraps, AgnoRestores
  <1>3. CASE framework = "google"
    BY <1>3 DEF Wraps, Restores, GoogleWraps, GoogleRestores
  <1>4. CASE framework = "openai"
    BY <1>4 DEF Wraps, Restores, OpenAIWraps, OpenAIRestores
  <1>5. CASE framework = "smolagents"
    BY <1>5 DEF Wraps, Restores, SmolagentsWraps, SmolagentsRestores
  <1>6. CASE framework = "langchain"
    BY <1>6 DEF Wraps, Restores, LangchainWraps, LangchainRestores
  <1>7. CASE framework = "llama_index"
    BY <1>7 DEF Wraps, Restores, LlamaIndexWraps, LlamaIndexRestores
  <1> QED BY <1>1, <1>2, <1>3, <1>4, <1>5, <1>6, <1>7

LEMMA SameWraps ==
  ASSUME framework' = framework
  PROVE  Wraps' = Wraps /\ \A e : (OpenAITool(e)' <=> OpenAITool(e)) /\ (Stays(e)' <=> Stays(e))
  BY DEF Wraps, AgnoWraps, GoogleWraps, OpenAIWraps, SmolagentsWraps, LangchainWraps,
         LlamaIndexWraps, OpenAITool, Stays

\* How many are registered.
LEMMA OneOf ==
  ASSUME NEW S \in SUBSET Ids
  PROVE  Cardinality(S) = 1 <=> \E x : S = {x}
  <1>1. IsFiniteSet(Ids)
    BY AgentRunAssumption, FS_AddElement DEF Ids
  <1>2. IsFiniteSet(S)
    BY <1>1, FS_Subset
  <1> QED BY <1>2, FS_Singleton

LEMMA OwnId ==
  ASSUME RunType, NEW r \in Runs, pc[r] \in Under
  PROVE  /\ id[r] \in Ids /\ r # Nil
         /\ OwnContext /\ NotShared => id[r] \in Registered
  <1>1. id[r] \in Ids /\ r # Nil
    BY AgentRunAssumption DEF RunType, Ids
  <1> QED BY <1>1 DEF OwnContext, Registered

LEMMA NotNil == Nil \notin Runs /\ Outer \notin Runs /\ Nil \notin Ids
  BY AgentRunAssumption DEF Ids, Nil, Outer

LEMMA Grows ==
  ASSUME trouble \subseteq trouble'
  PROVE  /\ NotShared' => NotShared
         /\ NotUpdated' => NotUpdated
         /\ Untroubled' => Untroubled
         /\ Untroubled => NotUpdated
  BY DEF NotShared, NotUpdated, Untroubled

-----------------------------------------------------------------------------
(* What steps leave alone.                                                 *)

LEMMA SameAgent ==
  ASSUME AgentPart, UNCHANGED <<agentState, contexts>>, trouble \subseteq trouble'
  PROVE  AgentPart'
  <1>1. Wraps' = Wraps /\ \A e : (OpenAITool(e)' <=> OpenAITool(e)) /\ (Stays(e)' <=> Stays(e))
    BY SameWraps DEF agentState
  <1>2. OnlyItsOwn'
    BY <1>1 DEF AgentPart, OnlyItsOwn, agentState
  <1>3. OriginalsBare'
    BY <1>1, Grows DEF AgentPart, OriginalsBare, agentState
  <1>4. Registered' = Registered
    BY DEF Registered
  <1>5. BareWhenIdle'
    BY <1>1, <1>4, Grows DEF AgentPart, BareWhenIdle, agentState
  <1>6. WrappedWhenBusy'
    BY <1>1, <1>4, Grows DEF AgentPart, WrappedWhenBusy, agentState
  <1>7. SavedWhenBusy'
    BY <1>4 DEF AgentPart, SavedWhenBusy, agentState
  <1> QED BY <1>2, <1>3, <1>5, <1>6, <1>7 DEF AgentPart

\* A run moves on, with its Context where it is.
LEMMA SameContexts ==
  ASSUME RunType, ContextPart, UNCHANGED <<contexts, id>>, trouble \subseteq trouble',
         \A s \in Runs : pc'[s] \in Under <=> pc[s] \in Under
  PROVE  ContextPart'
  <1>1. OwnContext'
    BY Grows DEF ContextPart, OwnContext
  <1>2. NobodyLeftBehind'
    BY Grows DEF ContextPart, NobodyLeftBehind, RunType
  <1> QED BY <1>1, <1>2 DEF ContextPart

\* A run that others' steps do not touch.
LEMMA OthersFine ==
  ASSUME NEW s \in Runs, Fine(s), trouble \subseteq trouble', framework' = framework,
         pc'[s] = pc[s], agentOf'[s] = agentOf[s], heard'[s] = heard[s], fault'[s] = fault[s],
         got'[s] = got[s], calls'[s] = calls[s], open'[s] = open[s],
         Untroubled' => span'[s] = span[s] /\ trace'[s] = trace[s],
         NotUpdated' /\ pc[s] \in Asks =>
           gen' = gen /\ (framework = "openai" /\ layers[gen]["tool"] = 1 => layers'[gen]["tool"] = 1)
  PROVE  Fine(s)'
  <1>1. SinceBegun(s)'
    BY Grows DEF Fine, SinceBegun
  <1>2. Untroubled' => InFlight(s)'
    BY Grows DEF Fine, InFlight
  <1>3. FaultHasCause(s)'
    BY DEF Fine, FaultHasCause
  <1>4. Fresh(s)'
    BY DEF Fine, Fresh
  <1> QED BY <1>1, <1>2, <1>3, <1>4 DEF Fine

-----------------------------------------------------------------------------
(* The start.                                                              *)

LEMMA RunStarts == RunInit => RunInv
  <1> SUFFICES ASSUME RunInit PROVE RunInv
    OBVIOUS
  <1>1. RunType
    <2>1. gen \in 0..MaxUpdates /\ reusedDict \in Nat /\ modelLayers \in Nat
      BY AgentRunAssumption DEF RunInit
    <2>2. layers \in [0..MaxUpdates -> [Entries -> Nat]]
      BY DEF RunInit, Unwrapped
    <2>3. original \in [Entries \cup {"model"} -> Nat] /\ contexts \in [Ids -> Runs \cup {Nil}]
      BY DEF RunInit
    <2>4. finals \in [0..MaxUpdates -> BOOLEAN] /\ saved \in BOOLEAN
      BY DEF RunInit
    <2>5. /\ pc \in [Runs -> Under \cup {"idle", "after", "done"}]
          /\ \A r \in Runs : pc[r] \notin Under
      BY DEF RunInit, Under
    <2>6. /\ id \in [Runs -> Ids \cup {Nil}] /\ agentOf \in [Runs -> 0..MaxUpdates]
          /\ heard \in [Runs -> Nat]
      BY AgentRunAssumption DEF RunInit
    <2>7. /\ DOMAIN fault = Runs /\ DOMAIN outcome = Runs /\ DOMAIN got = Runs
          /\ DOMAIN span = Runs /\ DOMAIN trace = Runs
          /\ DOMAIN open = Runs /\ DOMAIN calls = Runs /\ framework \in RunFrameworks
      BY DEF RunInit
    <2> QED BY <2>1, <2>2, <2>3, <2>4, <2>5, <2>6, <2>7, Zenon DEF RunType
  <1>2. AgentPart
    <2>1. \A g \in 0..MaxUpdates, e \in Entries : layers[g][e] = 0
      BY DEF RunInit, Unwrapped
    <2>2. gen \in 0..MaxUpdates
      BY <1>1 DEF RunType
    <2>3. Registered = {}
      BY DEF RunInit, Registered
    <2>4. OnlyItsOwn /\ OriginalsBare
      BY <2>1 DEF RunInit, OnlyItsOwn, OriginalsBare
    <2>5. BareWhenIdle /\ WrappedWhenBusy /\ SavedWhenBusy
      BY <2>1, <2>2, <2>3 DEF RunInit, BareWhenIdle, WrappedWhenBusy, SavedWhenBusy
    <2> QED BY <2>4, <2>5 DEF AgentPart
  <1>3. ContextPart
    BY DEF RunInit, ContextPart, OwnContext, NobodyLeftBehind, Under
  <1>4. ASSUME NEW r \in Runs PROVE Fine(r)
    <2>1. pc[r] = "idle" /\ fault[r] = Nil /\ open[r] = {} /\ calls[r] = <<>> /\ trace[r] = <<>>
      BY DEF RunInit
    <2>2. SinceBegun(r) /\ FaultHasCause(r)
      BY <2>1 DEF SinceBegun, FaultHasCause, Asks, Nil
    <2>3. InFlight(r)
      BY <2>1, EmptySeq DEF InFlight, TraceOf
    <2> QED BY <2>1, <2>2, <2>3 DEF Fine, Fresh
  <1> QED BY <1>1, <1>2, <1>3, <1>4 DEF RunInv

-----------------------------------------------------------------------------
(* The steps of a run that is under way.                                   *)

\* openai's tools are wrapped.
ToolsListed(r) ==
    /\ framework = "openai"
    /\ original' = [original EXCEPT !["tool"] = layers[agentOf[r]]["tool"]]
    /\ layers' = [g \in DOMAIN layers |-> [layers[g] EXCEPT !["tool"] = 1]]
    /\ UNCHANGED <<framework, typed, gen, finals, modelLayers, saved>>

Middle(r) ==
    \/ BeginRun(r) \/ Raise(r) \/ LostContext(r) \/ Result(r)
    \/ \E kind \in {"llm", "tool", "model"} : StartCall(r, kind)
    \/ \E c \in open[r] : FinishCall(r, c)

LEMMA BeginIs ==
  ASSUME RunType, NEW r \in Runs, BeginRun(r)
  PROVE  /\ UNCHANGED <<agentState, contexts, lock, id, tries, outcome, got, work>>
         /\ agentOf' = [agentOf EXCEPT ![r] = gen]
         /\ pc[r] = "before"
         /\ trouble' \in {trouble, trouble \cup {"config"}}
         /\ \/ /\ pc' = [pc EXCEPT ![r] = "leaving"] /\ fault' = [fault EXCEPT ![r] = "loop"]
               /\ framework = "langchain" /\ Through("llm", layers[gen]["llm"]) = Loop
               /\ UNCHANGED <<heard, reusedDict>>
            \/ /\ pc' = [pc EXCEPT ![r] = "running"] /\ UNCHANGED <<fault, heard, reusedDict>>
               /\ framework = "langchain" => Through("llm", layers[gen]["llm"]) = 0
            \/ /\ pc' = [pc EXCEPT ![r] = "running"] /\ UNCHANGED fault
               /\ \/ heard' = [heard EXCEPT ![r] = 1] /\ reusedDict' \in Nat
                  \/ /\ heard' = [heard EXCEPT ![r] = reusedDict + 1] /\ reusedDict' \in Nat
                     /\ reusedDict > 0 => "config" \in trouble'
  <1>1. reusedDict \in Nat
    BY DEF RunType
  <1>2. CASE framework # "langchain"
    BY <1>2 DEF BeginRun
  <1>3. CASE framework = "langchain" /\ Through("llm", layers[gen]["llm"]) = Loop
    BY <1>3 DEF BeginRun
  <1>4. CASE framework = "langchain" /\ Through("llm", layers[gen]["llm"]) = 0
    BY <1>4 DEF BeginRun, Loop
  <1>5. CASE /\ framework = "langchain" /\ Through("llm", layers[gen]["llm"]) # Loop
             /\ Through("llm", layers[gen]["llm"]) # 0
    <2>1. /\ UNCHANGED <<agentState, contexts, lock, id, tries, outcome, got, work>>
          /\ agentOf' = [agentOf EXCEPT ![r] = gen]
          /\ pc[r] = "before" /\ pc' = [pc EXCEPT ![r] = "running"] /\ UNCHANGED fault
      BY <1>5 DEF BeginRun
    <2>2. PICK reused \in BOOLEAN : Listens(r, reused)
      BY <1>5 DEF BeginRun
    <2>3. CASE reused
      BY <1>1, <2>1, <2>2, <2>3 DEF Listens
    <2>4. CASE ~reused
      BY <1>1, <2>1, <2>2, <2>4 DEF Listens
    <2> QED BY <2>3, <2>4
  <1> QED BY <1>2, <1>3, <1>4, <1>5

LEMMA StopIs ==
  ASSUME RunType, NEW r \in Runs, Raise(r) \/ LostContext(r)
  PROVE  /\ UNCHANGED <<agentState, contexts, lock, reusedDict, id, agentOf, heard, tries,
                        outcome, got, span, trace, calls, trouble>>
         /\ pc[r] \in {"before", "running", "shaping"}
         /\ pc' = [pc EXCEPT ![r] = "leaving"]
         /\ open' = [open EXCEPT ![r] = {}]
         /\ \/ fault' = [fault EXCEPT ![r] = "error"]
            \/ fault' = [fault EXCEPT ![r] = "lost"] /\ contexts[id[r]] = Nil
  BY DEF Raise, LostContext, Stop

LEMMA ResultIs ==
  ASSUME RunType, NEW r \in Runs, Result(r)
  PROVE  /\ UNCHANGED <<agentState, contexts, lock, reusedDict, id, agentOf, heard,
                        outcome, got, work, trouble>>
         /\ pc[r] \in Asks /\ open[r] = {}
         /\ \/ pc' = [pc EXCEPT ![r] = "leaving"]
            \/ /\ pc' = [pc EXCEPT ![r] = "shaping"] /\ pc[r] = "running"
               /\ framework \in {"langchain", "llama_index"}
            \/ pc' = pc
         /\ fault' = fault \/ fault' = [fault EXCEPT ![r] = "error"]
  <1>1. CASE AgnoResult(r) \/ OpenAIResult(r) \/ SmolagentsResult(r)
    BY <1>1 DEF AgnoResult, OpenAIResult, SmolagentsResult, Leaves, Asks
  <1>2. CASE LangchainResult(r)
    BY <1>2 DEF LangchainResult, Leaves, Asks
  <1>3. CASE LlamaIndexResult(r)
    BY <1>3 DEF LlamaIndexResult, Leaves, Asks
  <1>4. CASE GoogleResult(r)
    <2>1. CASE Leaves(r, "leaving")
      BY <2>1 DEF Leaves, Asks
    <2>2. CASE ~Leaves(r, "leaving")
      BY <1>4, <2>2 DEF GoogleResult, Asks
    <2> QED BY <2>1, <2>2
  <1>5. CASE ShapedResult(r)
    BY <1>5 DEF ShapedResult, Asks
  <1> QED BY <1>1, <1>2, <1>3, <1>4, <1>5 DEF Result

\* The call that StartCall makes.
CallOf(r, kind) ==
    [no |-> Len(calls[r]) + Cardinality(open[r]) + 1, kind |-> kind, times |-> Times(r, kind),
     context |-> IF Times(r, kind) = 0 THEN Nil ELSE contexts[id[r]]]

\* The wrapper calls itself, or its Context is gone.
CallFails(r, kind) ==
    /\ pc' = [pc EXCEPT ![r] = "leaving"] /\ open' = [open EXCEPT ![r] = {}]
    /\ \/ fault' = [fault EXCEPT ![r] = "loop"] /\ Times(r, kind) = Loop
       \/ fault' = [fault EXCEPT ![r] = "lost"] /\ contexts[id[r]] = Nil
    /\ UNCHANGED <<agentState, span, tries, trouble>>

CallStarts(r, kind) ==
    /\ UNCHANGED <<pc, fault>> /\ Times(r, kind) # Loop
    /\ span' = IF Times(r, kind) = 0 THEN span
               ELSE [span EXCEPT ![contexts[id[r]]] = <<r, CallOf(r, kind).no>>]
    /\ open' = [open EXCEPT ![r] = open[r] \cup {CallOf(r, kind)}]
    /\ trouble' = trouble \cup (IF open[r] # {} THEN {"parallel"} ELSE {})
    /\ IF kind = "llm" THEN ListTools(r) ELSE UNCHANGED agentState

LEMMA StartIs ==
  ASSUME RunType, NEW r \in Runs, NEW kind \in {"llm", "tool", "model"}, StartCall(r, kind)
  PROVE  /\ UNCHANGED <<contexts, lock, reusedDict, id, agentOf, heard, outcome, got,
                        trace, calls>>
         /\ pc[r] \in Asks /\ MayStart(r, kind)
         /\ CallFails(r, kind) \/ CallStarts(r, kind)
  <1>1. pc[r] \in Asks /\ MayStart(r, kind)
    BY DEF StartCall, MayStart, Asks
  <1>2. CASE Times(r, kind) = Loop \/ (Times(r, kind) # 0 /\ contexts[id[r]] = Nil)
    BY <1>1, <1>2 DEF StartCall, Stop, CallFails
  <1>3. CASE ~(Times(r, kind) = Loop \/ (Times(r, kind) # 0 /\ contexts[id[r]] = Nil))
    <2>1. CallOf(r, kind).no = Len(calls[r]) + Cardinality(open[r]) + 1
      BY DEF CallOf
    <2>2. CallStarts(r, kind)
      BY <1>3, <2>1 DEF StartCall, BeforeCall, CallStarts, CallOf
    <2> QED BY <1>1, <1>3, <2>2 DEF StartCall
  <1> QED BY <1>2, <1>3

LEMMA FinishIs ==
  ASSUME RunType, NEW r \in Runs, NEW c \in open[r], FinishCall(r, c)
  PROVE  /\ UNCHANGED <<agentState, contexts, lock, reusedDict, runs, span, trouble>>
         /\ pc[r] \in Asks
         /\ open' = [open EXCEPT ![r] = open[r] \ {c}]
         /\ calls' = [calls EXCEPT ![r] = Append(calls[r], c.no)]
         /\ \/ trace' = trace /\ (c.times = 0 \/ pc[c.context] = "done")
            \/ trace' = [trace EXCEPT ![c.context] =
                           trace[c.context] \o [i \in 1..c.times |-> span[c.context]]]
  BY DEF FinishCall, AfterCall, Asks

LEMMA MiddleIs ==
  ASSUME RunType, NEW r \in Runs, Middle(r)
  PROVE  /\ UNCHANGED <<contexts, lock, id, outcome, got>>
         /\ trouble \subseteq trouble'
         /\ pc[r] \in Under
         /\ pc' = pc \/ \E q \in Under : pc' = [pc EXCEPT ![r] = q]
         /\ agentOf' = agentOf \/ agentOf' = [agentOf EXCEPT ![r] = gen]
         /\ heard' = heard \/ \E n \in Nat : heard' = [heard EXCEPT ![r] = n]
         /\ reusedDict' \in Nat
         /\ fault' = fault \/ \E f : fault' = [fault EXCEPT ![r] = f]
         /\ open' = open \/ \E f : open' = [open EXCEPT ![r] = f]
         /\ calls' = calls \/ \E f : calls' = [calls EXCEPT ![r] = f]
         /\ span' = span \/ \E i, f : span' = [span EXCEPT ![i] = f]
         /\ trace' = trace \/ \E i, f : trace' = [trace EXCEPT ![i] = f]
         /\ UNCHANGED agentState \/ ToolsListed(r)
  <1>0. reusedDict \in Nat
    BY DEF RunType
  <1>1. CASE BeginRun(r)
    BY <1>0, <1>1, BeginIs DEF Under, work
  <1>2. CASE Raise(r) \/ LostContext(r)
    BY <1>0, <1>2, StopIs DEF Under
  <1>3. CASE Result(r)
    BY <1>0, <1>3, ResultIs DEF Under, Asks, work
  <1>4. CASE \E kind \in {"llm", "tool", "model"} : StartCall(r, kind)
    <2>1. PICK kind \in {"llm", "tool", "model"} : StartCall(r, kind)
      BY <1>4
    <2>2. UNCHANGED agentState \/ ToolsListed(r)
      BY <2>1, StartIs DEF CallFails, CallStarts, ListTools, ToolsListed
    <2> QED BY <1>0, <2>1, <2>2, StartIs DEF CallFails, CallStarts, Under, Asks
  <1>5. CASE \E c \in open[r] : FinishCall(r, c)
    BY <1>0, <1>5, FinishIs DEF Under, Asks, runs
  <1> QED BY <1>1, <1>2, <1>3, <1>4, <1>5 DEF Middle

LEMMA MiddleType ==
  ASSUME RunType, OnlyItsOwn, NEW r \in Runs, Middle(r) PROVE RunType'
  <1>1. layers' \in [0..MaxUpdates -> [Entries -> Nat]] /\ original' \in [Entries \cup {"model"} -> Nat]
    <2>1. CASE ToolsListed(r)
      <3>1. agentOf[r] \in 0..MaxUpdates /\ "tool" \in Entries
        BY DEF RunType, Entries
      <3>2. layers[agentOf[r]]["tool"] \in Nat
        BY <3>1 DEF RunType
      <3> QED BY <2>1, <3>2 DEF ToolsListed, RunType
    <2>2. CASE UNCHANGED agentState
      BY <2>2 DEF RunType, agentState
    <2> QED BY <2>1, <2>2, MiddleIs
  <1>2. UNCHANGED <<framework, typed, gen, finals, modelLayers, saved>>
    BY MiddleIs DEF agentState, ToolsListed
  <1>3. /\ pc' \in [Runs -> Under \cup {"idle", "after", "done"}]
        /\ \A s \in Runs : pc'[s] \in Under => pc[s] \in Under
    <2>1. pc \in [Runs -> Under \cup {"idle", "after", "done"}]
      BY DEF RunType
    <2>2. pc[r] \in Under /\ (pc' = pc \/ \E q \in Under : pc' = [pc EXCEPT ![r] = q])
      BY MiddleIs
    <2> QED BY <2>1, <2>2
  <1>4. agentOf' \in [Runs -> 0..MaxUpdates]
    <2>1. agentOf' = agentOf \/ agentOf' = [agentOf EXCEPT ![r] = gen]
      BY MiddleIs
    <2> QED BY <2>1 DEF RunType
  <1>5. heard' \in [Runs -> Nat]
    <2>1. heard' = heard \/ \E n \in Nat : heard' = [heard EXCEPT ![r] = n]
      BY MiddleIs
    <2> QED BY <2>1 DEF RunType
  <1>6. DOMAIN fault' = Runs /\ DOMAIN open' = Runs /\ DOMAIN calls' = Runs
    <2>1. /\ fault' = fault \/ \E f : fault' = [fault EXCEPT ![r] = f]
          /\ open' = open \/ \E f : open' = [open EXCEPT ![r] = f]
          /\ calls' = calls \/ \E f : calls' = [calls EXCEPT ![r] = f]
      BY MiddleIs
    <2> QED BY <2>1 DEF RunType
  <1>7. DOMAIN span' = Runs /\ DOMAIN trace' = Runs
    <2>1. /\ span' = span \/ \E i, f : span' = [span EXCEPT ![i] = f]
          /\ trace' = trace \/ \E i, f : trace' = [trace EXCEPT ![i] = f]
      BY MiddleIs
    <2> QED BY <2>1 DEF RunType
  <1>8. reusedDict' \in Nat /\ UNCHANGED <<contexts, id, outcome, got>>
    BY MiddleIs
  <1> QED BY <1>1, <1>2, <1>3, <1>4, <1>5, <1>6, <1>7, <1>8 DEF RunType

LEMMA MiddleAgent ==
  ASSUME RunType, AgentPart, NEW r \in Runs, Middle(r) PROVE AgentPart'
  <1>1. trouble \subseteq trouble' /\ contexts' = contexts
    BY MiddleIs
  <1>2. CASE UNCHANGED agentState
    BY <1>1, <1>2, SameAgent
  <1>3. CASE ToolsListed(r)
    <2>1. Wraps' = Wraps /\ \A e : (OpenAITool(e)' <=> OpenAITool(e)) /\ (Stays(e)' <=> Stays(e))
      BY <1>3, SameWraps DEF ToolsListed
    <2>2. /\ framework = "openai" /\ "tool" \notin Wraps
          /\ OpenAITool("tool") /\ Stays("tool") /\ "tool" \in Entries
      BY <1>3, WrapsIs DEF ToolsListed, RunType, OpenAITool, Stays, Entries
    <2>3. agentOf[r] \in 0..MaxUpdates /\ gen \in 0..MaxUpdates
      BY DEF RunType
    <2>4. /\ \A e \in Entries \cup {"model"} : e # "tool" => original'[e] = original[e]
          /\ original'["tool"] \in {0, 1}
      <3>1. layers[agentOf[r]]["tool"] \in {0, 1}
        BY <2>2, <2>3 DEF AgentPart, OnlyItsOwn
      <3> QED BY <1>3, <3>1 DEF ToolsListed, RunType, Entries
    <2>5. \A g \in 0..MaxUpdates, e \in Entries :
            layers'[g][e] = IF e = "tool" THEN 1 ELSE layers[g][e]
      BY <1>3 DEF ToolsListed, RunType
    <2>6. UNCHANGED <<gen, finals, modelLayers, saved, framework>>
      BY <1>3 DEF ToolsListed
    <2>7. OnlyItsOwn'
      BY <2>1, <2>2, <2>4, <2>5, <2>6 DEF AgentPart, OnlyItsOwn
    <2>8. OriginalsBare'
      BY <1>1, <2>1, <2>2, <2>4, Grows DEF AgentPart, OriginalsBare
    <2>9. Registered' = Registered
      BY <1>1 DEF Registered
    <2>10. BareWhenIdle'
      BY <1>1, <2>1, <2>2, <2>3, <2>5, <2>6, <2>9, Grows DEF AgentPart, BareWhenIdle
    <2>11. WrappedWhenBusy'
      BY <1>1, <2>1, <2>2, <2>3, <2>5, <2>6, <2>9, Grows DEF AgentPart, WrappedWhenBusy
    <2>12. SavedWhenBusy'
      BY <1>1, <2>6, <2>9 DEF AgentPart, SavedWhenBusy
    <2> QED BY <2>7, <2>8, <2>10, <2>11, <2>12 DEF AgentPart
  <1> QED BY <1>2, <1>3, MiddleIs

LEMMA MiddleContext ==
  ASSUME RunType, ContextPart, NEW r \in Runs, Middle(r) PROVE ContextPart'
  <1>1. \A s \in Runs : pc'[s] \in Under <=> pc[s] \in Under
    BY MiddleIs DEF RunType
  <1> QED BY <1>1, MiddleIs, SameContexts

-----------------------------------------------------------------------------
(* How often the callbacks of a call run.                                  *)

\* Without shared trace ids no wrapper finds itself as its original, but for
\* agno's tool wrapper.
LEMMA NoLoop ==
  ASSUME RunType, OriginalsBare, NotShared, framework # "agno",
         NEW kind \in {"llm", "tool", "tools", "model"}, NEW n \in Nat
  PROVE  Through(kind, n) # Loop
  <1>1. kind \in Entries \cup {"model"}
    BY DEF Entries
  <1>2. ~Captures(kind) => original[kind] = 0
    <2>1. CASE kind = "tool" /\ framework = "openai"
      BY <2>1 DEF Captures
    <2>2. CASE ~(kind = "tool" /\ framework = "openai")
      BY <1>1, <2>2 DEF OriginalsBare, Stays
    <2> QED BY <2>1, <2>2
  <1> QED BY <1>2 DEF Through, Loop

LEMMA TimesType ==
  ASSUME RunType, NEW r \in Runs, NEW kind \in {"llm", "tool", "model"}, ~(framework = "agno"),
         OriginalsBare, NotShared
  PROVE  Times(r, kind) # Loop
  <1>1. CASE framework = "langchain" /\ kind # "model"
    <2>1. heard[r] \in Nat
      BY DEF RunType
    <2> QED BY <1>1, <2>1 DEF Times, Loop
  <1>2. CASE kind = "model"
    <2>1. modelLayers \in Nat
      BY DEF RunType
    <2> QED BY <1>2, <2>1, NoLoop DEF Times
  <1>3. CASE ~(framework = "langchain") /\ kind # "model"
    <2>1. agentOf[r] \in 0..MaxUpdates /\ kind \in Entries
      BY <1>3 DEF RunType, Entries
    <2>2. layers[agentOf[r]][kind] \in Nat
      BY <2>1 DEF RunType
    <2> QED BY <1>3, <2>2, NoLoop DEF Times
  <1> QED BY <1>1, <1>2, <1>3

\* A call runs the callbacks once if nothing troubles the run, or not at all.
LEMMA OnceEach ==
  ASSUME RunType, AgentPart, ContextPart, Untroubled, NEW r \in Runs, pc[r] \in Asks, SinceBegun(r),
         NEW kind \in {"llm", "tool", "model"}, MayStart(r, kind), Times(r, kind) # Loop
  PROVE  Times(r, kind) = 1
  <1>1. NotUpdated /\ NotShared
    BY Grows DEF NotUpdated, Untroubled, NotShared
  <1>2. Registered # {}
    BY <1>1, OwnId DEF ContextPart, Under, Asks
  <1>3. /\ "model" \in Wraps => modelLayers = 1
        /\ \A e \in Entries : e \in Wraps => layers[gen][e] = 1 \/ (Stays(e) /\ layers[gen][e] # 0)
    BY <1>1, <1>2 DEF AgentPart, WrappedWhenBusy
  <1>4. agentOf[r] = gen /\ gen \in 0..MaxUpdates
    BY <1>1 DEF SinceBegun, RunType
  <1>5. CASE framework = "langchain" /\ kind # "model"
    BY <1>5 DEF SinceBegun, Times
  <1>6. CASE kind = "model"
    <2>1. framework \in {"langchain", "llama_index"}
      BY <1>6 DEF MayStart, SinceBegun
    <2>2. modelLayers = 1
      BY <1>3, <2>1, WrapsIs DEF RunType
    <2> QED BY <1>6, <2>2 DEF Times, Through, Captures
  <1>7. CASE kind = "llm" /\ framework # "langchain"
    <2>1. layers[gen]["llm"] = 1
      BY <1>3, WrapsIs DEF RunType, Entries, Stays
    <2> QED BY <1>4, <1>7, <2>1 DEF Times, Through, Captures
  <1>8. CASE kind = "tool" /\ framework # "langchain"
    <2>1. CASE framework = "agno"
      <3>1. layers[gen]["tool"] # 0
        BY <1>3, <2>1, WrapsIs DEF RunType, Entries
      <3> QED BY <1>4, <1>8, <2>1, <3>1 DEF Times, Through, Captures
    <2>2. CASE framework = "openai"
      <3>1. calls[r] # <<>>
        BY <1>8 DEF MayStart
      <3>2. layers[gen]["tool"] = 1
        BY <1>1, <2>2, <3>1 DEF SinceBegun
      <3> QED BY <1>4, <1>8, <2>2, <3>2 DEF Times, Through, Captures
    <2>3. CASE framework \notin {"agno", "openai"}
      <3>1. framework \in {"google", "smolagents", "llama_index"}
        BY <1>8, <2>3, AgentRunAssumption DEF RunType
      <3>2. layers[gen]["tool"] = 1
        BY <1>3, <3>1, WrapsIs DEF RunType, Entries, Stays
      <3> QED BY <1>4, <1>8, <3>2 DEF Times, Through, Captures
    <2> QED BY <2>1, <2>2, <2>3
  <1> QED BY <1>5, <1>6, <1>7, <1>8

-----------------------------------------------------------------------------
(* A step of a run under way leaves the others as they are, and itself fine. *)

LEMMA SpansOwn ==
  ASSUME RunType, OwnContext, NotShared, NEW r \in Runs, pc[r] \in Under
  PROVE  contexts[id[r]] = r
  BY DEF OwnContext

LEMMA MiddleOthers ==
  ASSUME RunInv, NEW r \in Runs, Middle(r), NEW s \in Runs, s # r
  PROVE  Fine(s)'
  <1> USE DEF RunInv
  <1>1. /\ trouble \subseteq trouble' /\ framework' = framework /\ got' = got
        /\ gen' = gen
    BY MiddleIs DEF agentState, ToolsListed
  <1>2. pc'[s] = pc[s]
    <2>1. DOMAIN pc = Runs
      BY DEF RunType
    <2>2. pc' = pc \/ \E q \in Under : pc' = [pc EXCEPT ![r] = q]
      BY MiddleIs
    <2> QED BY <2>1, <2>2
  <1>3. agentOf'[s] = agentOf[s]
    <2>1. DOMAIN agentOf = Runs
      BY DEF RunType
    <2>2. agentOf' = agentOf \/ agentOf' = [agentOf EXCEPT ![r] = gen]
      BY MiddleIs
    <2> QED BY <2>1, <2>2
  <1>4. heard'[s] = heard[s]
    <2>1. DOMAIN heard = Runs
      BY DEF RunType
    <2>2. heard' = heard \/ \E n \in Nat : heard' = [heard EXCEPT ![r] = n]
      BY MiddleIs
    <2> QED BY <2>1, <2>2
  <1>5. fault'[s] = fault[s] /\ calls'[s] = calls[s] /\ open'[s] = open[s]
    <2>1. DOMAIN fault = Runs /\ DOMAIN calls = Runs /\ DOMAIN open = Runs
      BY DEF RunType
    <2>2. fault' = fault \/ \E f : fault' = [fault EXCEPT ![r] = f]
      BY MiddleIs
    <2>3. calls' = calls \/ \E f : calls' = [calls EXCEPT ![r] = f]
      BY MiddleIs
    <2>4. open' = open \/ \E f : open' = [open EXCEPT ![r] = f]
      BY MiddleIs
    <2> QED BY <2>1, <2>2, <2>3, <2>4
  <1>6. framework = "openai" /\ layers[gen]["tool"] = 1 => layers'[gen]["tool"] = 1
    <2>1. gen \in 0..MaxUpdates /\ "tool" \in Entries
      BY DEF RunType, Entries
    <2>2. CASE ToolsListed(r)
      BY <2>1, <2>2 DEF ToolsListed, RunType
    <2>3. CASE UNCHANGED agentState
      BY <2>3 DEF agentState
    <2> QED BY <2>2, <2>3, MiddleIs
  <1>7. Untroubled' => span'[s] = span[s] /\ trace'[s] = trace[s]
    <2>1. SUFFICES ASSUME Untroubled' PROVE span'[s] = span[s] /\ trace'[s] = trace[s]
      OBVIOUS
    <2>2. Untroubled /\ NotShared /\ pc[r] \in Under
      BY <1>1, <2>1, Grows, MiddleIs DEF NotUpdated
    <2>3. contexts[id[r]] = r
      BY <2>2, SpansOwn DEF ContextPart
    <2>4. CASE BeginRun(r)
      BY <2>4, BeginIs DEF work
    <2>5. CASE Raise(r) \/ LostContext(r)
      BY <2>5, StopIs
    <2>6. CASE Result(r)
      BY <2>6, ResultIs DEF work
    <2>7. CASE \E kind \in {"llm", "tool", "model"} : StartCall(r, kind)
      <3>1. PICK kind \in {"llm", "tool", "model"} : StartCall(r, kind)
        BY <2>7
      <3>2. trace' = trace /\ (span' = span \/ \E f : span' = [span EXCEPT ![r] = f])
        BY <2>3, <3>1, StartIs DEF CallFails, CallStarts
      <3> QED BY <3>2 DEF RunType
    <2>8. CASE \E c \in open[r] : FinishCall(r, c)
      <3>1. PICK c \in open[r] : FinishCall(r, c)
        BY <2>8
      <3>2. c.context = r
        BY <2>2 DEF Fine, InFlight
      <3>3. span' = span /\ (trace' = trace \/ \E f : trace' = [trace EXCEPT ![r] = f])
        BY <3>1, <3>2, FinishIs
      <3> QED BY <3>3 DEF RunType
    <2> QED BY <2>4, <2>5, <2>6, <2>7, <2>8 DEF Middle
  <1> QED BY <1>1, <1>2, <1>3, <1>4, <1>5, <1>6, <1>7, OthersFine

\* A run that begins takes the agent of now, and its tracing callback is the
\* only one in its config.
LEMMA BeginFine == ASSUME RunInv, NEW r \in Runs, BeginRun(r) PROVE Fine(r)'
  <1> USE DEF RunInv
  <1>1. /\ trouble \subseteq trouble' /\ UNCHANGED <<agentState, contexts, id, got, work>>
        /\ pc[r] = "before" /\ agentOf'[r] = gen
    BY BeginIs DEF RunType
  <1>2. UNCHANGED <<framework, gen, layers, got, span, trace, open, calls>>
    BY <1>1 DEF agentState, work
  <1>3. pc'[r] \in {"leaving", "running"}
    BY BeginIs DEF RunType
  <1>4. NotShared => contexts[id[r]] = r
    BY <1>1, SpansOwn DEF ContextPart, Under
  <1>5. Untroubled' => InFlight(r)'
    <2>1. SUFFICES ASSUME Untroubled' PROVE InFlight(r)'
      OBVIOUS
    <2>2. InFlight(r) /\ open[r] = {}
      BY <1>1, <2>1, Grows DEF Fine, InFlight, Asks
    <2> QED BY <1>2, <1>3, <2>2 DEF InFlight
  <1>6. SinceBegun(r)'
    <2>1. SUFFICES ASSUME pc'[r] = "running" PROVE SinceBegun(r)'
      BY <1>3 DEF SinceBegun, Asks
    <2>2. Untroubled' /\ framework' = "langchain" => heard'[r] = 1
      <3>1. SUFFICES ASSUME Untroubled', framework = "langchain" PROVE heard'[r] = 1
        BY <1>2
      <3>2. Untroubled /\ NotUpdated /\ "config" \notin trouble'
        BY <1>1, <3>1, Grows DEF Untroubled
      <3>3. Registered # {}
        BY <1>1, <1>4, <3>2, OwnId DEF ContextPart, Under, NotUpdated
      <3>4. layers[gen]["llm"] = 1
        BY <3>2, <3>3, WrapsIs DEF AgentPart, WrappedWhenBusy, RunType, Entries, Stays
      <3>5. Through("llm", layers[gen]["llm"]) # 0
        BY <3>4 DEF Through, Captures, Loop
      <3>6. DOMAIN heard = Runs /\ DOMAIN pc = Runs /\ reusedDict \in Nat
        BY DEF RunType
      <3>7. \/ heard' = [heard EXCEPT ![r] = 1]
            \/ heard' = [heard EXCEPT ![r] = reusedDict + 1] /\ ~(reusedDict > 0)
        BY <2>1, <3>1, <3>2, <3>5, <3>6, BeginIs
      <3> QED BY <3>6, <3>7
    <2>3. NotUpdated' /\ framework' = "openai" /\ (calls'[r] # <<>> \/ open'[r] # {}) =>
            layers'[gen']["tool"] = 1
      BY <1>1, <1>2 DEF Fine, Fresh
    <2> QED BY <1>1, <1>2, <2>1, <2>2, <2>3 DEF SinceBegun
  <1>7. FaultHasCause(r)'
    <2>1. CASE fault' = fault
      BY <1>1, <1>2, <2>1 DEF Fine, FaultHasCause
    <2>2. CASE framework = "langchain" /\ Through("llm", layers[gen]["llm"]) = Loop
      <3>1. layers[gen]["llm"] \in Nat
        BY DEF RunType, Entries
      <3>2. ~NotShared
        BY <2>2, <3>1, NoLoop DEF AgentPart
      <3> QED BY <1>1, <3>2 DEF NotShared, FaultHasCause
    <2> QED BY <2>1, <2>2, BeginIs
  <1> QED BY <1>3, <1>5, <1>6, <1>7 DEF Fine, Fresh

LEMMA StopFine ==
  ASSUME RunInv, NEW r \in Runs, Raise(r) \/ LostContext(r) PROVE Fine(r)'
  <1> USE DEF RunInv
  <1>1. /\ UNCHANGED <<agentState, got, span, trace, calls, trouble>>
        /\ pc'[r] = "leaving" /\ open'[r] = {} /\ pc[r] \in Under
        /\ fault'[r] = "error" \/ contexts[id[r]] = Nil
    BY StopIs DEF RunType, Under
  <1>2. SinceBegun(r)'
    BY <1>1 DEF SinceBegun, Asks
  <1>3. Untroubled' => InFlight(r)'
    BY <1>1 DEF Fine, InFlight, Untroubled
  <1>4. FaultHasCause(r)'
    <2>1. contexts[id[r]] = Nil => ~NotShared
      BY <1>1, SpansOwn, NotNil DEF ContextPart
    <2> QED BY <1>1, <2>1 DEF FaultHasCause, NotShared
  <1> QED BY <1>1, <1>2, <1>3, <1>4 DEF Fine, Fresh

LEMMA ResultFine == ASSUME RunInv, NEW r \in Runs, Result(r) PROVE Fine(r)'
  <1> USE DEF RunInv
  <1>1. UNCHANGED <<framework, gen, layers, agentOf, heard, got, span, trace, open, calls, trouble>>
    BY ResultIs DEF agentState, work
  <1>2. /\ pc[r] \in Asks /\ open[r] = {}
        /\ \/ pc'[r] = "leaving"
           \/ pc'[r] = "shaping" /\ framework \in {"langchain", "llama_index"}
           \/ pc'[r] = pc[r]
        /\ fault'[r] = fault[r] \/ fault'[r] = "error"
    BY ResultIs DEF RunType
  <1>3. SinceBegun(r)'
    BY <1>1, <1>2 DEF Fine, SinceBegun, Asks, NotUpdated, NotShared, Untroubled
  <1>4. Untroubled' => InFlight(r)'
    BY <1>1, <1>2 DEF Fine, InFlight, Untroubled, Asks
  <1>5. FaultHasCause(r)'
    BY <1>1, <1>2 DEF Fine, FaultHasCause
  <1> QED BY <1>2, <1>3, <1>4, <1>5 DEF Fine, Fresh, Asks

LEMMA StartFine ==
  ASSUME RunInv, NEW r \in Runs, NEW kind \in {"llm", "tool", "model"}, StartCall(r, kind)
  PROVE  Fine(r)'
  <1> USE DEF RunInv
  <1>1. pc[r] \in Asks /\ pc[r] \in Under
    BY StartIs DEF Asks, Under
  <1>2. UNCHANGED <<contexts, id, agentOf, heard, got, trace, calls>>
    BY StartIs
  <1>3. NotShared => contexts[id[r]] = r /\ r # Nil
    BY <1>1, SpansOwn, NotNil DEF ContextPart
  <1>4. CASE CallFails(r, kind)
    <2> USE <1>4 DEF CallFails
    <2>1. pc'[r] = "leaving" /\ open'[r] = {} /\ framework' = framework
      BY <1>4 DEF RunType, agentState
    <2>2. SinceBegun(r)' /\ Fresh(r)'
      BY <2>1 DEF SinceBegun, Fresh, Asks
    <2>3. Untroubled' => InFlight(r)'
      BY <1>2, <1>4, <2>1 DEF Fine, InFlight, Untroubled
    <2>4. FaultHasCause(r)'
      <3>1. CASE Times(r, kind) = Loop
        <4>1. framework = "agno" \/ ~NotShared
          BY <3>1, TimesType DEF AgentPart
        <4> QED BY <1>4, <2>1, <4>1 DEF FaultHasCause, NotShared
      <3>2. CASE contexts[id[r]] = Nil
        BY <1>3, <1>4, <3>2 DEF FaultHasCause, NotShared
      <3> QED BY <1>4, <3>1, <3>2
    <2> QED BY <2>2, <2>3, <2>4 DEF Fine
  <1>5. CASE CallStarts(r, kind)
    <2> USE <1>5 DEF CallStarts
    <2>1. trouble \subseteq trouble' /\ framework' = framework /\ gen' = gen
      BY <1>5 DEF agentState, ListTools
    <2>2. FaultHasCause(r)' /\ Fresh(r)'
      BY <1>1, <1>5, <2>1 DEF Fine, FaultHasCause, Fresh, Asks
    <2>3. Untroubled' => InFlight(r)'
      <3>1. SUFFICES ASSUME Untroubled' PROVE InFlight(r)'
        OBVIOUS
      <3>2. open[r] = {}
        BY <1>5, <3>1 DEF Untroubled
      <3>3. Untroubled /\ NotShared /\ InFlight(r)
        BY <2>1, <3>1, Grows DEF Fine, NotUpdated
      <3>4. Times(r, kind) = 1
        <4>1. MayStart(r, kind)
          BY StartIs
        <4> QED BY <1>1, <1>5, <3>3, <4>1, OnceEach DEF Fine
      <3>5. PICK c : c = CallOf(r, kind)
        OBVIOUS
      <3>6. c.times = 1 /\ c.context = r /\ c.no = Len(calls[r]) + Cardinality(open[r]) + 1
        BY <1>3, <3>3, <3>4, <3>5 DEF CallOf
      <3>7. c.no \in Nat
        <4>1. Cardinality(open[r]) = 0 /\ Len(calls[r]) \in Nat
          BY <3>2, <3>3, FS_EmptySet, LenProperties DEF InFlight
        <4> QED BY <3>6, <4>1
      <3>9. open'[r] = {c}
        <4>1. open' = [open EXCEPT ![r] = open[r] \cup {c}]
          BY <3>5, Zenon
        <4>2. DOMAIN open = Runs
          BY DEF RunType
        <4> QED BY <3>2, <4>1, <4>2
      <3>10. span'[r] = <<r, c.no>>
        <4>1. Times(r, kind) # 0
          BY <3>4
        <4>2. span' = [span EXCEPT ![r] = <<r, c.no>>]
          BY <1>3, <3>3, <3>5, <4>1, Zenon
        <4>3. DOMAIN span = Runs
          BY DEF RunType
        <4> QED BY <4>2, <4>3
      <3>11. pc'[r] = pc[r]
        BY <1>5
      <3> QED BY <1>1, <1>2, <3>3, <3>6, <3>7, <3>9, <3>10, <3>11 DEF InFlight, Asks
    <2>4. SinceBegun(r)'
      <3>1. pc'[r] = pc[r] /\ SinceBegun(r)
        BY <1>5 DEF Fine
      <3>2. NotUpdated' => agentOf'[r] = gen'
        BY <1>1, <1>2, <2>1, <3>1, Grows DEF SinceBegun
      <3>3. Untroubled' /\ framework' = "langchain" => heard'[r] = 1
        BY <1>1, <1>2, <2>1, <3>1, Grows DEF SinceBegun
      <3>4. NotUpdated' /\ framework' = "openai" => layers'[gen]["tool"] = 1
        <4>1. SUFFICES ASSUME NotUpdated', framework = "openai" PROVE layers'[gen]["tool"] = 1
          BY <2>1
        <4>2. NotUpdated /\ NotShared /\ Registered # {} /\ agentOf[r] = gen /\ gen \in 0..MaxUpdates
          BY <1>1, <2>1, <3>1, <4>1, Grows, OwnId DEF SinceBegun, ContextPart, NotUpdated, RunType
        <4>3. CASE kind = "llm"
          <5>1. layers[gen]["tools"] = 1
            BY <4>1, <4>2, WrapsIs DEF AgentPart, WrappedWhenBusy, RunType, Entries, Stays
          <5>2. layers' = [g \in DOMAIN layers |-> [layers[g] EXCEPT !["tool"] = 1]]
            BY <1>5, <4>1, <4>2, <4>3, <5>1 DEF ListTools
          <5> QED BY <4>2, <5>2 DEF RunType, Entries
        <4>4. CASE kind # "llm"
          <5>1. MayStart(r, kind) /\ layers' = layers
            BY <1>5, <4>4, StartIs DEF agentState
          <5>2. kind = "tool" \/ pc[r] = "shaping"
            BY <4>4, <5>1 DEF MayStart
          <5>3. calls[r] # <<>>
            BY <1>1, <3>1, <4>1, <5>1, <5>2 DEF MayStart, SinceBegun
          <5> QED BY <1>1, <3>1, <4>1, <4>2, <5>1, <5>3 DEF SinceBegun
        <4> QED BY <4>3, <4>4
      <3>5. pc'[r] = "shaping" => framework' \in {"langchain", "llama_index"}
        BY <1>1, <2>1, <3>1 DEF SinceBegun
      <3> QED BY <2>1, <3>2, <3>3, <3>4, <3>5 DEF SinceBegun
    <2> QED BY <2>2, <2>3, <2>4 DEF Fine
  <1> QED BY <1>4, <1>5, StartIs

\* A call adds itself to the trace as it comes back.
LEMMA TraceGrows ==
  ASSUME NEW r, NEW s \in Seq(Nat), NEW n \in Nat
  PROVE  /\ Append(s, n) \in Seq(Nat)
         /\ TraceOf(r, s) \o [i \in 1..1 |-> <<r, n>>] = TraceOf(r, Append(s, n))
  <1>0. PICK t : t = [i \in DOMAIN s |-> <<r, s[i]>>]
    OBVIOUS
  <1>1. Append(s, n) \in Seq(Nat) /\ Len(Append(s, n)) = Len(s) + 1 /\ Len(s) \in Nat
    OBVIOUS
  <1> DEFINE W == {<<r, m>> : m \in Nat}
  <1>2. t \in Seq(W) /\ Len(t) = Len(s)
    BY <1>0
  <1>3. [i \in 1..1 |-> <<r, n>>] = <<<<r, n>>>>
    OBVIOUS
  <1>4. t \o <<<<r, n>>>> = Append(t, <<r, n>>)
    BY <1>2
  <1>5. \A i \in 1..(Len(s) + 1) : Append(t, <<r, n>>)[i] = <<r, Append(s, n)[i]>>
    BY <1>0, <1>1, <1>2
  <1>6. DOMAIN Append(s, n) = 1..(Len(s) + 1)
    BY <1>1
  <1>7. Append(t, <<r, n>>) = [i \in 1..(Len(s) + 1) |-> Append(t, <<r, n>>)[i]]
    BY <1>2
  <1> QED BY <1>0, <1>1, <1>3, <1>4, <1>5, <1>6, <1>7 DEF TraceOf

LEMMA FinishFine ==
  ASSUME RunInv, NEW r \in Runs, NEW c \in open[r], FinishCall(r, c)
  PROVE  Fine(r)'
  <1> USE DEF RunInv
  <1>1. UNCHANGED <<framework, gen, layers, pc, agentOf, heard, fault, got, span, trouble>>
    BY FinishIs DEF agentState, runs
  <1>2. /\ pc[r] \in Asks /\ open'[r] = open[r] \ {c}
        /\ calls'[r] = Append(calls[r], c.no)
    <2>1. DOMAIN open = Runs /\ DOMAIN calls = Runs
      BY DEF RunType
    <2> QED BY <2>1, FinishIs
  <1>3. SinceBegun(r)'
    BY <1>1, <1>2 DEF Fine, SinceBegun, NotUpdated, NotShared, Untroubled
  <1>4. Untroubled' => InFlight(r)'
    <2>1. SUFFICES ASSUME Untroubled PROVE InFlight(r)'
      BY <1>1 DEF Untroubled
    <2>2. /\ c.no \in Nat /\ c.times = 1 /\ c.context = r /\ span[r] = <<r, c.no>>
          /\ \A d \in open[r] : d = c
          /\ calls[r] \in Seq(Nat) /\ trace[r] = TraceOf(r, calls[r])
      BY <2>1 DEF Fine, InFlight
    <2>3. open'[r] = {}
      BY <1>2, <2>2
    <2>4. trace'[r] = trace[r] \o [i \in 1..1 |-> <<r, c.no>>]
      <3>1. pc[c.context] # "done"
        BY <1>2, <2>2 DEF Asks
      <3>2. trace' = [trace EXCEPT ![r] = trace[r] \o [i \in 1..1 |-> span[r]]]
        <4>1. c.times # 0
          BY <2>2
        <4>2. trace' = [trace EXCEPT ![c.context] =
                          trace[c.context] \o [i \in 1..c.times |-> span[c.context]]]
          BY <3>1, <4>1, FinishIs
        <4> QED BY <2>2, <4>2, Zenon
      <3>3. DOMAIN trace = Runs
        BY DEF RunType
      <3> QED BY <2>2, <3>2, <3>3
    <2>5. /\ calls'[r] \in Seq(Nat)
          /\ trace'[r] = TraceOf(r, calls'[r])
      <3>1. /\ Append(calls[r], c.no) \in Seq(Nat)
            /\ TraceOf(r, calls[r]) \o [i \in 1..1 |-> <<r, c.no>>] = TraceOf(r, Append(calls[r], c.no))
        <4>1. PICK s \in Seq(Nat) : s = calls[r]
          BY <2>2
        <4>2. PICK n \in Nat : n = c.no
          BY <2>2
        <4>3. /\ Append(s, n) \in Seq(Nat)
              /\ TraceOf(r, s) \o [i \in 1..1 |-> <<r, n>>] = TraceOf(r, Append(s, n))
          BY TraceGrows, Zenon
        <4> QED BY <4>1, <4>2, <4>3, Zenon
      <3> QED BY <1>2, <2>2, <2>4, <3>1, Zenon
    <2>6. pc'[r] # "after"
      BY <1>1, <1>2 DEF Asks
    <2> QED BY <2>3, <2>5, <2>6 DEF InFlight
  <1>5. FaultHasCause(r)' /\ Fresh(r)'
    BY <1>1, <1>2 DEF Fine, FaultHasCause, Fresh, Asks
  <1> QED BY <1>3, <1>4, <1>5 DEF Fine

LEMMA MiddleStep == ASSUME RunInv, NEW r \in Runs, Middle(r) PROVE RunInv'
  <1>1. RunType' /\ AgentPart' /\ ContextPart'
    BY MiddleType, MiddleAgent, MiddleContext DEF RunInv, AgentPart
  <1>2. Fine(r)'
    BY BeginFine, StopFine, ResultFine, StartFine, FinishFine DEF Middle
  <1>3. \A s \in Runs : Fine(s)'
    BY <1>2, MiddleOthers
  <1> QED BY <1>1, <1>3 DEF RunInv

-----------------------------------------------------------------------------
(* A run enters.                                                           *)

EnteredAs(r, i) ==
    /\ id' = [id EXCEPT ![r] = i]
    /\ contexts' = [contexts EXCEPT ![i] = r]
    /\ trouble' = trouble \cup (IF contexts[i] # Nil THEN {"shared"} ELSE {})
    /\ IF Cardinality(Registered \cup {i}) = 1
       THEN Wrap
       ELSE UNCHANGED <<original, layers, modelLayers, saved>>

LEMMA EnterIs ==
  ASSUME NEW r \in Runs, Enter(r)
  PROVE  /\ pc[r] = "idle" /\ pc' = [pc EXCEPT ![r] = "before"]
         /\ \E i \in {r, Outer} : EnteredAs(r, i)
         /\ UNCHANGED <<framework, typed, gen, finals, lock, reusedDict, agentOf, heard, tries,
                        fault, outcome, got, work>>
  BY DEF Enter, EnteredAs

LEMMA WrapIs ==
  ASSUME RunType, Wrap
  PROVE  /\ \A e \in Entries \cup {"model"} :
              original'[e] = IF e \in Wraps THEN Layers(e) ELSE original[e]
         /\ original' \in [Entries \cup {"model"} -> Nat]
         /\ \A g \in 0..MaxUpdates, e \in Entries :
              layers'[g][e] = layers[g][e] + (IF g = gen /\ e \in Wraps THEN 1 ELSE 0)
         /\ layers' \in [0..MaxUpdates -> [Entries -> Nat]]
         /\ modelLayers' = modelLayers + (IF "model" \in Wraps THEN 1 ELSE 0)
         /\ saved' = (saved \/ (framework = "llama_index" /\ finals[gen]))
  <1>1. gen \in 0..MaxUpdates /\ layers[gen] \in [Entries -> Nat] /\ modelLayers \in Nat
    BY DEF RunType
  <1>2. \A e \in Entries \cup {"model"} : Layers(e) \in Nat
    BY <1>1 DEF Layers
  <1>3. original' = [e \in Entries \cup {"model"} |-> IF e \in Wraps THEN Layers(e) ELSE original[e]]
    BY DEF RunType, Wrap
  <1>4. original' \in [Entries \cup {"model"} -> Nat]
    BY <1>2, <1>3 DEF RunType
  <1>5. PICK w : w = [e \in Entries |-> layers[gen][e] + (IF e \in Wraps THEN 1 ELSE 0)]
    OBVIOUS
  <1>6. w \in [Entries -> Nat]
    BY <1>1, <1>5
  <1>7. layers' = [layers EXCEPT ![gen] = w]
    BY <1>1, <1>5 DEF Wrap, RunType
  <1>8. layers' \in [0..MaxUpdates -> [Entries -> Nat]]
    BY <1>6, <1>7 DEF RunType
  <1>9. \A g \in 0..MaxUpdates, e \in Entries :
          layers'[g][e] = layers[g][e] + (IF g = gen /\ e \in Wraps THEN 1 ELSE 0)
    <2>1. SUFFICES ASSUME NEW g \in 0..MaxUpdates, NEW e \in Entries
                   PROVE  layers'[g][e] = layers[g][e] + (IF g = gen /\ e \in Wraps THEN 1 ELSE 0)
      OBVIOUS
    <2>2. layers[g][e] \in Nat
      <3>1. layers[g] \in [Entries -> Nat]
        BY DEF RunType
      <3> QED BY <3>1
    <2>3. CASE g = gen
      BY <1>1, <1>5, <1>7, <2>3 DEF RunType
    <2>4. CASE g # gen
      BY <1>7, <2>2, <2>4 DEF RunType
    <2> QED BY <2>3, <2>4
  <1> QED BY <1>3, <1>4, <1>8, <1>9 DEF Wrap

LEMMA WrapTyped ==
  ASSUME RunType, Wrap
  PROVE  /\ layers' \in [0..MaxUpdates -> [Entries -> Nat]]
         /\ original' \in [Entries \cup {"model"} -> Nat]
         /\ modelLayers' \in Nat /\ saved' \in BOOLEAN
  <1>1. layers' \in [0..MaxUpdates -> [Entries -> Nat]]
    BY WrapIs
  <1>2. original' \in [Entries \cup {"model"} -> Nat]
    BY WrapIs
  <1>3. modelLayers' = modelLayers + (IF "model" \in Wraps THEN 1 ELSE 0)
    BY WrapIs
  <1>4. modelLayers' \in Nat
    <2>1. modelLayers \in Nat
      BY DEF RunType
    <2> QED BY <1>3, <2>1
  <1>5. saved' = (saved \/ (framework = "llama_index" /\ finals[gen]))
    BY WrapIs
  <1>6. saved' \in BOOLEAN
    BY <1>5
  <1> QED BY <1>1, <1>2, <1>4, <1>6

LEMMA EnterStep == ASSUME RunInv, NEW r \in Runs, Enter(r) PROVE RunInv'
  <1> USE DEF RunInv
  <1>1. PICK i \in {r, Outer} : EnteredAs(r, i)
    BY EnterIs
  <1>2. /\ pc[r] = "idle" /\ pc' = [pc EXCEPT ![r] = "before"]
        /\ UNCHANGED <<framework, typed, gen, finals, reusedDict, agentOf, heard, fault, outcome,
                       got, span, trace, open, calls>>
    BY EnterIs DEF work
  <1>3. /\ id' = [id EXCEPT ![r] = i] /\ contexts' = [contexts EXCEPT ![i] = r]
        /\ i \in Ids /\ i # Nil /\ r # Nil
    BY <1>1, NotNil DEF EnteredAs, Ids
  <1>4. trouble \subseteq trouble' /\ (NotShared' => contexts[i] = Nil)
    BY <1>1 DEF EnteredAs, NotShared
  <1>5. /\ gen \in 0..MaxUpdates /\ modelLayers \in Nat /\ Registered \in SUBSET Ids
        /\ \A g \in 0..MaxUpdates, e \in Entries : layers[g][e] \in Nat
    BY DEF RunType, Registered
  <1>6. \/ Wrap /\ (NotShared' => Registered = {})
        \/ UNCHANGED <<original, layers, modelLayers, saved>> /\ Registered # {}
    <2>1. CASE Cardinality(Registered \cup {i}) = 1
      <3>1. \E x : Registered \cup {i} = {x}
        BY <1>3, <1>5, <2>1, OneOf
      <3>2. NotShared' => i \notin Registered
        BY <1>4 DEF Registered
      <3> QED BY <1>1, <2>1, <3>1, <3>2 DEF EnteredAs
    <2>2. CASE Cardinality(Registered \cup {i}) # 1
      <3>1. Registered # {}
        <4>1. {i} = Registered \cup {i} => Cardinality(Registered \cup {i}) = 1
          BY <1>3, <1>5, OneOf
        <4> QED BY <2>2, <4>1
      <3> QED BY <1>1, <2>2, <3>1 DEF EnteredAs
    <2> QED BY <2>1, <2>2
  <1>7. Registered' # {}
    BY <1>3 DEF Registered, RunType
  <1>8. RunType'
    <2>1. /\ layers' \in [0..MaxUpdates -> [Entries -> Nat]]
          /\ original' \in [Entries \cup {"model"} -> Nat]
          /\ modelLayers' \in Nat /\ saved' \in BOOLEAN
      <3>1. CASE Wrap
        BY <3>1, WrapTyped
      <3>2. CASE UNCHANGED <<original, layers, modelLayers, saved>>
        BY <3>2 DEF RunType
      <3> QED BY <1>6, <3>1, <3>2
    <2>2. contexts' \in [Ids -> Runs \cup {Nil}] /\ id' \in [Runs -> Ids \cup {Nil}]
      BY <1>3 DEF RunType
    <2>3. pc' \in [Runs -> Under \cup {"idle", "after", "done"}]
      BY <1>2 DEF RunType, Under
    <2>4. \A s \in Runs : pc'[s] \in Under => id'[s] \in {s, Outer}
      BY <1>2, <1>3 DEF RunType
    <2> QED BY <1>2, <2>1, <2>2, <2>3, <2>4 DEF RunType
  <1>9. AgentPart'
    <2>1. Wraps' = Wraps /\ \A e : (OpenAITool(e)' <=> OpenAITool(e)) /\ (Stays(e)' <=> Stays(e))
      BY <1>2, SameWraps
    <2>2. BareWhenIdle'
      BY <1>7 DEF BareWhenIdle
    <2>3. CASE UNCHANGED <<original, layers, modelLayers, saved>> /\ Registered # {}
      <3>1. OnlyItsOwn' /\ OriginalsBare'
        BY <1>2, <1>4, <2>1, <2>3, Grows DEF AgentPart, OnlyItsOwn, OriginalsBare
      <3>2. WrappedWhenBusy'
        BY <1>2, <1>4, <2>1, <2>3, Grows DEF AgentPart, WrappedWhenBusy
      <3>3. SavedWhenBusy'
        BY <1>2, <1>4, <2>3 DEF AgentPart, SavedWhenBusy
      <3> QED BY <2>2, <3>1, <3>2, <3>3 DEF AgentPart
    <2>4. CASE Wrap /\ (NotShared' => Registered = {})
      <3> USE <2>4
      <3>1. OnlyItsOwn'
        <4>1. \A g \in 0..MaxUpdates, e \in Entries : e \notin Wraps => layers'[g][e] = layers[g][e]
          BY <1>5, WrapIs
        <4>2. "model" \notin Wraps => modelLayers' = modelLayers
          BY <1>5, WrapIs
        <4>3. \A e \in Entries \cup {"model"} : e \notin Wraps => original'[e] = original[e]
          BY WrapIs
        <4> QED BY <2>1, <4>1, <4>2, <4>3 DEF AgentPart, OnlyItsOwn
      <3>2. OriginalsBare'
        <4>1. SUFFICES ASSUME NotShared', NEW e \in Entries \cup {"model"}
                       PROVE  original'[e] = 0 \/ Stays(e)
          BY <2>1 DEF OriginalsBare
        <4>2. NotShared /\ Registered = {}
          BY <1>4, <4>1, Grows
        <4>3. Layers(e) = 0 \/ Stays(e)
          BY <4>2 DEF AgentPart, BareWhenIdle, Layers
        <4>4. original[e] = 0 \/ Stays(e)
          BY <4>2 DEF AgentPart, OriginalsBare
        <4> QED BY <4>3, <4>4, WrapIs
      <3>3. WrappedWhenBusy'
        <4>1. SUFFICES ASSUME NotUpdated'
                       PROVE  /\ "model" \in Wraps => modelLayers' = 1
                              /\ \A e \in Entries : e \in Wraps =>
                                   layers'[gen][e] = 1 \/ (Stays(e) /\ layers'[gen][e] # 0)
          BY <1>2, <2>1 DEF WrappedWhenBusy
        <4>2. NotShared /\ Registered = {}
          BY <1>4, <4>1, Grows DEF NotUpdated
        <4>3. modelLayers = 0 /\ \A e \in Entries : layers[gen][e] = 0 \/ Stays(e)
          BY <4>2 DEF AgentPart, BareWhenIdle
        <4>4. \A e \in Entries : e \in Wraps => layers'[gen][e] = layers[gen][e] + 1
          BY <1>5, WrapIs
        <4>5. "model" \in Wraps => modelLayers' = 1
          BY <4>3, WrapIs
        <4> QED BY <1>5, <4>3, <4>4, <4>5
      <3>4. SavedWhenBusy'
        BY <1>2, WrapIs DEF SavedWhenBusy
      <3> QED BY <2>2, <3>1, <3>2, <3>3, <3>4 DEF AgentPart
    <2> QED BY <1>6, <2>3, <2>4
  <1>10. ContextPart'
    <2>1. OwnContext'
      <3>1. SUFFICES ASSUME NotShared', NEW s \in Runs, pc'[s] \in Under
                     PROVE  contexts'[id'[s]] = s
        BY DEF OwnContext
      <3>2. CASE s = r
        BY <1>3, <3>2 DEF RunType
      <3>3. CASE s # r
        <4>1. pc[s] \in Under /\ id'[s] = id[s]
          BY <1>2, <1>3, <3>1, <3>3 DEF RunType
        <4>2. contexts[id[s]] = s /\ s # Nil /\ id[s] \in Ids
          BY <1>4, <3>1, <4>1, Grows, OwnId DEF ContextPart, OwnContext
        <4>3. id[s] # i
          BY <1>4, <3>1, <4>2
        <4> QED BY <1>3, <4>1, <4>2, <4>3 DEF RunType
      <3> QED BY <3>2, <3>3
    <2>2. NobodyLeftBehind'
      <3>1. SUFFICES ASSUME NotUpdated', "cancelled" \notin trouble', NEW j \in Ids,
                            contexts'[j] # Nil
                     PROVE  pc'[contexts'[j]] \in Under /\ id'[contexts'[j]] = j
        BY DEF NobodyLeftBehind
      <3>2. CASE j = i
        BY <1>2, <1>3, <3>2 DEF RunType, Under
      <3>3. CASE j # i
        <4>1. contexts'[j] = contexts[j] /\ contexts[j] \in Runs
          BY <1>3, <3>1, <3>3 DEF RunType
        <4>2. pc[contexts[j]] \in Under /\ id[contexts[j]] = j
          BY <1>4, <3>1, <4>1, Grows DEF ContextPart, NobodyLeftBehind
        <4>3. contexts[j] # r
          BY <1>2, <4>2 DEF Under
        <4> QED BY <1>2, <1>3, <4>1, <4>2, <4>3 DEF RunType
      <3> QED BY <3>2, <3>3
    <2> QED BY <2>1, <2>2 DEF ContextPart
  <1>11. ASSUME NEW s \in Runs PROVE Fine(s)'
    <2>1. CASE s = r
      <3>1. pc'[s] = "before" /\ Fresh(s) /\ FaultHasCause(s)
        BY <1>2, <2>1 DEF RunType, Fine
      <3>2. SinceBegun(s)' /\ Fresh(s)' /\ FaultHasCause(s)'
        BY <1>2, <1>4, <2>1, <3>1 DEF SinceBegun, Fresh, FaultHasCause, Asks
      <3>3. Untroubled' => InFlight(s)'
        <4>1. SUFFICES ASSUME Untroubled' PROVE InFlight(s)'
          OBVIOUS
        <4>2. InFlight(s) /\ open[s] = {}
          BY <1>2, <1>4, <2>1, <4>1, Grows DEF Fine, Fresh
        <4> QED BY <1>2, <3>1, <4>2 DEF InFlight
      <3> QED BY <3>2, <3>3 DEF Fine
    <2>2. CASE s # r
      <3>1. pc'[s] = pc[s]
        BY <1>2, <2>2 DEF RunType
      <3>2. framework = "openai" => layers'[gen]["tool"] = layers[gen]["tool"]
        <4>1. CASE Wrap
          <5>1. SUFFICES ASSUME framework = "openai" PROVE layers'[gen]["tool"] = layers[gen]["tool"]
            OBVIOUS
          <5>2. "tool" \notin Wraps /\ "tool" \in Entries
            BY <5>1, WrapsIs DEF RunType, Entries
          <5>3. layers[gen]["tool"] \in Nat
            BY <1>5, <5>2
          <5> QED BY <1>5, <4>1, <5>2, <5>3, WrapIs
        <4> QED BY <1>6, <4>1
      <3> QED BY <1>2, <1>4, <3>1, <3>2, OthersFine
    <2> QED BY <2>1, <2>2
  <1> QED BY <1>8, <1>9, <1>10, <1>11

-----------------------------------------------------------------------------
(* A run leaves.                                                           *)

LEMMA UnwrapIs ==
  ASSUME RunType, Unwrap
  PROVE  /\ \A g \in 0..MaxUpdates, e \in Entries :
              layers'[g][e] = IF g = gen /\ e \in Restores THEN original[e] ELSE layers[g][e]
         /\ layers' \in [0..MaxUpdates -> [Entries -> Nat]]
         /\ modelLayers' = IF "model" \in Restores THEN original["model"] ELSE modelLayers
         /\ UNCHANGED <<original, saved>>
  <1>1. gen \in 0..MaxUpdates /\ layers[gen] \in [Entries -> Nat]
    BY DEF RunType
  <1>2. PICK w : w = [e \in Entries |-> IF e \in Restores THEN original[e] ELSE layers[gen][e]]
    OBVIOUS
  <1>3. w \in [Entries -> Nat]
    BY <1>1, <1>2 DEF RunType
  <1>4. layers' = [layers EXCEPT ![gen] = w]
    BY <1>1, <1>2 DEF Unwrap, RunType
  <1>5. layers' \in [0..MaxUpdates -> [Entries -> Nat]]
    BY <1>3, <1>4 DEF RunType
  <1>6. \A g \in 0..MaxUpdates, e \in Entries :
          layers'[g][e] = IF g = gen /\ e \in Restores THEN original[e] ELSE layers[g][e]
    BY <1>1, <1>2, <1>4 DEF RunType
  <1> QED BY <1>5, <1>6 DEF Unwrap

\* Putting the originals back breaks no promise about what is wrapped.
LEMMA UnwrapKeeps ==
  ASSUME RunType, AgentPart, Unwrap, UNCHANGED <<framework, gen, finals>>,
         trouble \subseteq trouble'
  PROVE  /\ OnlyItsOwn' /\ OriginalsBare'
         /\ NotShared => \A e \in Entries : layers'[gen][e] = 0 \/ Stays(e)
         /\ NotShared => modelLayers' = 0 \/ (framework = "llama_index" /\ LlamaIndexRaises)
  <1>1. Wraps' = Wraps /\ \A e : (OpenAITool(e)' <=> OpenAITool(e)) /\ (Stays(e)' <=> Stays(e))
    BY SameWraps
  <1>2. gen \in 0..MaxUpdates /\ framework \in RunFrameworks
    BY DEF RunType
  <1>3. OnlyItsOwn'
    <2>1. \A g \in 0..MaxUpdates, e \in Entries :
            e \notin Wraps => layers'[g][e] = 0 \/ (OpenAITool(e) /\ layers'[g][e] = 1)
      BY UnwrapIs DEF AgentPart, OnlyItsOwn
    <2>2. "model" \notin Wraps => modelLayers' = 0
      BY <1>2, WrapsIs, UnwrapIs DEF AgentPart, OnlyItsOwn
    <2>3. original' = original
      BY UnwrapIs
    <2> QED BY <1>1, <2>1, <2>2, <2>3 DEF AgentPart, OnlyItsOwn
  <1>4. OriginalsBare'
    BY <1>1, UnwrapIs, Grows DEF AgentPart, OriginalsBare
  <1>5. ASSUME NotShared, NEW e \in Entries PROVE layers'[gen][e] = 0 \/ Stays(e)
    <2>1. CASE e \in Restores
      BY <1>2, <1>5, <2>1, UnwrapIs DEF AgentPart, OriginalsBare
    <2>2. CASE e \notin Restores
      <3>1. e \notin Wraps \/ (e = "tool" /\ framework = "agno")
        BY <1>2, <2>2, WrapsIs, AgentRunAssumption DEF Entries
      <3>2. layers'[gen][e] = layers[gen][e]
        BY <1>2, <2>2, UnwrapIs
      <3> QED BY <1>2, <3>1, <3>2 DEF AgentPart, OnlyItsOwn, OpenAITool, Stays
    <2> QED BY <2>1, <2>2
  <1>6. ASSUME NotShared PROVE modelLayers' = 0 \/ (framework = "llama_index" /\ LlamaIndexRaises)
    <2>1. CASE "model" \in Restores
      BY <1>6, <2>1, UnwrapIs DEF AgentPart, OriginalsBare, Stays
    <2>2. CASE "model" \notin Restores
      <3>1. "model" \notin Wraps \/ (framework = "llama_index" /\ LlamaIndexRaises)
        BY <1>2, <2>2, WrapsIs
      <3> QED BY <2>2, <3>1, UnwrapIs DEF AgentPart, OnlyItsOwn
    <2> QED BY <2>1, <2>2
  <1> QED BY <1>3, <1>4, <1>5, <1>6

\* What is left of a run that is over.
LEMMA OverIs ==
  ASSUME RunType, NEW r \in Runs, NEW o, Over(r, o)
  PROVE  /\ pc' = [pc EXCEPT ![r] = "done"] /\ pc'[r] = "done"
         /\ id' = [id EXCEPT ![r] = Nil] /\ agentOf' = [agentOf EXCEPT ![r] = 0]
         /\ heard' = [heard EXCEPT ![r] = 0] /\ outcome' = [outcome EXCEPT ![r] = o]
         /\ fault'[r] = Nil /\ trace'[r] = <<>> /\ open'[r] = {} /\ calls'[r] = <<>>
         /\ DOMAIN fault' = Runs /\ DOMAIN outcome' = Runs /\ DOMAIN got' = Runs
         /\ DOMAIN span' = Runs /\ DOMAIN trace' = Runs
         /\ DOMAIN open' = Runs /\ DOMAIN calls' = Runs
         /\ \A s \in Runs : s # r =>
              /\ pc'[s] = pc[s] /\ id'[s] = id[s] /\ agentOf'[s] = agentOf[s]
              /\ heard'[s] = heard[s] /\ fault'[s] = fault[s] /\ got'[s] = got[s]
              /\ span'[s] = span[s] /\ trace'[s] = trace[s] /\ open'[s] = open[s]
              /\ calls'[s] = calls[s] /\ outcome'[s] = outcome[s]
  BY DEF Over, RunType

LEMMA OverFine ==
  ASSUME RunInv, NEW r \in Runs, NEW o, Over(r, o), trouble \subseteq trouble'
  PROVE  Fine(r)'
  <1>1. pc'[r] = "done" /\ fault'[r] = Nil /\ trace'[r] = <<>> /\ open'[r] = {} /\ calls'[r] = <<>>
    BY OverIs DEF RunInv
  <1>2. SinceBegun(r)' /\ Fresh(r)' /\ FaultHasCause(r)'
    BY <1>1 DEF SinceBegun, Fresh, FaultHasCause, Asks, Nil
  <1>3. InFlight(r)'
    BY <1>1, EmptySeq DEF InFlight, TraceOf
  <1> QED BY <1>2, <1>3 DEF Fine

\* A run that ends without touching the agent or the Contexts.
LEMMA OverStep ==
  ASSUME RunInv, NEW r \in Runs, NEW o, Over(r, o), UNCHANGED <<agentState, contexts, reusedDict>>,
         trouble \subseteq trouble', pc[r] = "after" \/ "cancelled" \in trouble'
  PROVE  RunInv'
  <1> USE DEF RunInv
  <1>1. RunType'
    <2>1. /\ agentOf' \in [Runs -> 0..MaxUpdates] /\ heard' \in [Runs -> Nat]
      <3>1. agentOf' = [agentOf EXCEPT ![r] = 0] /\ heard' = [heard EXCEPT ![r] = 0]
        BY OverIs
      <3>2. 0 \in 0..MaxUpdates
        BY AgentRunAssumption
      <3> QED BY <3>1, <3>2 DEF RunType
    <2>2. id' \in [Runs -> Ids \cup {Nil}] /\ pc' \in [Runs -> Under \cup {"idle", "after", "done"}]
      <3>1. id' = [id EXCEPT ![r] = Nil] /\ pc' = [pc EXCEPT ![r] = "done"]
        BY OverIs
      <3> QED BY <3>1 DEF RunType
    <2>3. \A s \in Runs : pc'[s] \in Under => id'[s] \in {s, Outer}
      BY OverIs DEF RunType, Under
    <2> QED BY <2>1, <2>2, <2>3, OverIs DEF RunType, agentState
  <1>2. AgentPart'
    BY SameAgent
  <1>3. ContextPart'
    <2>1. OwnContext'
      BY OverIs, Grows DEF ContextPart, OwnContext, Under
    <2>2. NobodyLeftBehind'
      <3>1. SUFFICES ASSUME NotUpdated', "cancelled" \notin trouble', NEW i \in Ids, contexts[i] # Nil
                     PROVE  pc'[contexts[i]] \in Under /\ id'[contexts[i]] = i
        BY DEF NobodyLeftBehind
      <3>2. contexts[i] \in Runs /\ pc[contexts[i]] \in Under /\ id[contexts[i]] = i
        BY <3>1, Grows DEF ContextPart, NobodyLeftBehind, RunType
      <3>3. contexts[i] # r
        BY <3>1, <3>2 DEF Under
      <3> QED BY <3>2, <3>3, OverIs
    <2> QED BY <2>1, <2>2 DEF ContextPart
  <1>4. ASSUME NEW s \in Runs PROVE Fine(s)'
    <2>1. CASE s = r
      BY <2>1, OverFine
    <2>2. CASE s # r
      BY <2>2, OverIs, OthersFine DEF agentState
    <2> QED BY <2>1, <2>2
  <1> QED BY <1>1, <1>2, <1>3, <1>4

LEMMA AfterStep == ASSUME RunInv, NEW r \in Runs, AfterRun(r) PROVE RunInv'
  <1>1. pc[r] = "after" /\ UNCHANGED <<agentState, contexts, reusedDict, trouble>>
    BY DEF AfterRun
  <1>2. PICK o : Over(r, o)
    BY DEF AfterRun
  <1> QED BY <1>1, <1>2, OverStep

LEMMA CancelledStep == ASSUME RunInv, NEW r \in Runs, RunCancelled(r) PROVE RunInv'
  <1>1. /\ Over(r, "cancelled") /\ UNCHANGED <<agentState, contexts, reusedDict>>
        /\ trouble \subseteq trouble' /\ (pc[r] = "after" \/ "cancelled" \in trouble')
    BY DEF RunCancelled
  <1> QED BY <1>1, OverStep

\* While nothing but the last run is registered, no other run calls the framework.
LEMMA OnlyOneAsks ==
  ASSUME RunType, OwnContext, NotShared, NEW r \in Runs, pc[r] \in Under,
         NEW s \in Runs, s # r, pc[s] \in Under
  PROVE  id[s] # id[r] /\ Cardinality(Registered) # 1
  <1>1. contexts[id[s]] = s /\ contexts[id[r]] = r
    BY SpansOwn
  <1>2. id[s] # id[r]
    BY <1>1
  <1>3. id[s] \in Registered /\ id[r] \in Registered /\ Registered \in SUBSET Ids
    BY OwnId DEF Registered
  <1> QED BY <1>2, <1>3, OneOf

\* llama_index's unwrap raises only if the output type was changed meanwhile.
LEMMA RaisesOnlyIfUpdated ==
  ASSUME AgentPart, framework = "llama_index", LlamaIndexRaises, Registered # {}
  PROVE  "updated" \in trouble
  BY DEF AgentPart, SavedWhenBusy, LlamaIndexRaises

LEMMA LeaveRaises ==
  ASSUME RunInv, NEW r \in Runs, pc[r] = "leaving", Cardinality(Registered) = 1,
         framework = "llama_index", LlamaIndexRaises, Unwrap, Over(r, "raw"),
         UNCHANGED <<contexts, lock, framework, typed, gen, finals, reusedDict, trouble>>
  PROVE  RunInv'
  <1> USE DEF RunInv
  <1>1. Registered # {} /\ Registered' = Registered
    <2>1. Registered \in SUBSET Ids
      BY DEF Registered
    <2>2. \E x : Registered = {x}
      BY <2>1, OneOf
    <2> QED BY <2>2 DEF Registered
  <1>2. "updated" \in trouble' /\ ~NotUpdated' /\ ~Untroubled'
    BY <1>1, RaisesOnlyIfUpdated DEF NotUpdated, Untroubled
  <1>3. RunType'
    <2>1. /\ agentOf' \in [Runs -> 0..MaxUpdates] /\ heard' \in [Runs -> Nat]
      <3>1. agentOf' = [agentOf EXCEPT ![r] = 0] /\ heard' = [heard EXCEPT ![r] = 0]
        BY OverIs
      <3>2. 0 \in 0..MaxUpdates
        BY AgentRunAssumption
      <3> QED BY <3>1, <3>2 DEF RunType
    <2>2. id' \in [Runs -> Ids \cup {Nil}] /\ pc' \in [Runs -> Under \cup {"idle", "after", "done"}]
      <3>1. id' = [id EXCEPT ![r] = Nil] /\ pc' = [pc EXCEPT ![r] = "done"]
        BY OverIs
      <3> QED BY <3>1 DEF RunType
    <2>3. \A s \in Runs : pc'[s] \in Under => id'[s] \in {s, Outer}
      BY OverIs DEF RunType, Under
    <2>4. /\ layers' \in [0..MaxUpdates -> [Entries -> Nat]] /\ UNCHANGED <<original, saved>>
          /\ modelLayers' \in Nat
      BY UnwrapIs DEF RunType
    <2> QED BY <2>1, <2>2, <2>3, <2>4, OverIs DEF RunType
  <1>4. AgentPart'
    <2>1. OnlyItsOwn' /\ OriginalsBare'
      BY UnwrapKeeps
    <2>2. BareWhenIdle' /\ WrappedWhenBusy' /\ SavedWhenBusy'
      BY <1>1, <1>2 DEF BareWhenIdle, WrappedWhenBusy, SavedWhenBusy
    <2> QED BY <2>1, <2>2 DEF AgentPart
  <1>5. ContextPart'
    <2>1. OwnContext'
      BY OverIs, Grows DEF ContextPart, OwnContext, Under
    <2> QED BY <1>2, <2>1 DEF ContextPart, NobodyLeftBehind
  <1>6. ASSUME NEW s \in Runs PROVE Fine(s)'
    <2>1. CASE s = r
      BY <2>1, OverFine
    <2>2. CASE s # r
      BY <1>2, <2>2, OverIs, OthersFine
    <2> QED BY <2>1, <2>2
  <1> QED BY <1>3, <1>4, <1>5, <1>6

LEMMA LeaveQuietly ==
  ASSUME RunInv, NEW r \in Runs, pc[r] = "leaving",
         IF Cardinality(Registered) = 1 THEN Unwrap
         ELSE UNCHANGED <<original, layers, modelLayers, saved>>,
         ~(Cardinality(Registered) = 1 /\ framework = "llama_index" /\ LlamaIndexRaises),
         contexts' = [contexts EXCEPT ![id[r]] = Nil],
         got' = [got EXCEPT ![r] = contexts[id[r]]],
         pc' = [pc EXCEPT ![r] = "after"],
         UNCHANGED <<id, agentOf, heard, tries, fault, outcome, work,
                     framework, typed, gen, finals, reusedDict, trouble>>
  PROVE  RunInv'
  <1> USE DEF RunInv
  <1>1. pc[r] \in Under /\ id[r] \in Ids /\ r # Nil
    BY OwnId DEF Under
  <1>2. Registered' = Registered \ {id[r]} /\ Registered \in SUBSET Ids
    BY <1>1 DEF Registered, RunType
  <1>3. NotShared => contexts[id[r]] = r /\ id[r] \in Registered
    BY <1>1, SpansOwn, OwnId DEF ContextPart
  <1>4. NotShared => (Cardinality(Registered) = 1 <=> Registered' = {})
    <2>1. Cardinality(Registered) = 1 <=> \E x : Registered = {x}
      BY <1>2, OneOf, Zenon
    <2>2. NotShared => (Registered \ {id[r]} = {} <=> \E x : Registered = {x})
      BY <1>3
    <2> QED BY <1>2, <2>1, <2>2, Zenon
  <1>5. NotShared' = NotShared /\ NotUpdated' = NotUpdated /\ Untroubled' = Untroubled
    BY DEF NotShared, NotUpdated, Untroubled
  <1>6. RunType'
    <2>1. /\ layers' \in [0..MaxUpdates -> [Entries -> Nat]] /\ UNCHANGED <<original, saved>>
          /\ modelLayers' \in Nat
      BY UnwrapIs DEF RunType
    <2>2. contexts' \in [Ids -> Runs \cup {Nil}] /\ pc' \in [Runs -> Under \cup {"idle", "after", "done"}]
      BY DEF RunType
    <2>3. \A s \in Runs : pc'[s] \in Under => id'[s] \in {s, Outer}
      BY DEF RunType, Under
    <2>4. DOMAIN got' = Runs
      BY DEF RunType
    <2> QED BY <2>1, <2>2, <2>3, <2>4 DEF RunType, work
  <1>7. AgentPart'
    <2>1. OnlyItsOwn' /\ OriginalsBare'
      <3>1. CASE Cardinality(Registered) = 1
        BY <3>1, UnwrapKeeps
      <3>2. CASE Cardinality(Registered) # 1
        <4>1. Wraps' = Wraps /\ \A e : (OpenAITool(e)' <=> OpenAITool(e)) /\ (Stays(e)' <=> Stays(e))
          BY SameWraps
        <4> QED BY <1>5, <3>2, <4>1 DEF AgentPart, OnlyItsOwn, OriginalsBare
      <3> QED BY <3>1, <3>2
    <2>2. BareWhenIdle'
      <3>1. SUFFICES ASSUME NotShared, Registered' = {}
                     PROVE  modelLayers' = 0 /\ \A e \in Entries : layers'[gen][e] = 0 \/ Stays(e)
        BY <1>5 DEF BareWhenIdle, Stays
      <3>2. Cardinality(Registered) = 1
        BY <1>4, <3>1
      <3> QED BY <3>1, <3>2, UnwrapKeeps
    <2>3. WrappedWhenBusy'
      <3>1. CASE NotUpdated /\ Registered' # {}
        <4>1. UNCHANGED <<original, layers, modelLayers, saved>> /\ Registered # {}
          BY <1>2, <1>4, <3>1 DEF NotUpdated
        <4>2. Wraps' = Wraps /\ \A e : (OpenAITool(e)' <=> OpenAITool(e)) /\ (Stays(e)' <=> Stays(e))
          BY SameWraps
        <4> QED BY <3>1, <4>1, <4>2 DEF AgentPart, WrappedWhenBusy
      <3>2. CASE ~(NotUpdated /\ Registered' # {})
        BY <1>5, <3>2 DEF WrappedWhenBusy
      <3> QED BY <3>1, <3>2
    <2>4. SavedWhenBusy'
      <3>1. saved' = saved
        BY UnwrapIs
      <3> QED BY <1>2, <3>1 DEF AgentPart, SavedWhenBusy
    <2> QED BY <2>1, <2>2, <2>3, <2>4 DEF AgentPart
  <1>8. ContextPart'
    <2>1. OwnContext'
      <3>1. SUFFICES ASSUME NotShared, NEW s \in Runs, pc'[s] \in Under
                     PROVE  contexts'[id[s]] = s
        BY <1>5 DEF OwnContext
      <3>2. s # r /\ pc[s] \in Under
        BY <3>1 DEF RunType, Under
      <3>3. contexts[id[s]] = s /\ id[s] # id[r] /\ id[s] \in Ids
        BY <1>3, <3>1, <3>2, SpansOwn, OwnId DEF ContextPart
      <3> QED BY <1>1, <3>3 DEF RunType
    <2>2. NobodyLeftBehind'
      <3>1. SUFFICES ASSUME NotUpdated, "cancelled" \notin trouble, NEW i \in Ids, contexts'[i] # Nil
                     PROVE  pc'[contexts'[i]] \in Under /\ id[contexts'[i]] = i
        BY <1>5 DEF NobodyLeftBehind
      <3>2. i # id[r] /\ contexts'[i] = contexts[i]
        BY <1>1, <3>1 DEF RunType
      <3>3. contexts[i] \in Runs /\ pc[contexts[i]] \in Under /\ id[contexts[i]] = i
        BY <3>1, <3>2 DEF ContextPart, NobodyLeftBehind, RunType
      <3>4. contexts[i] # r
        BY <3>2, <3>3
      <3> QED BY <3>2, <3>3, <3>4 DEF RunType
    <2> QED BY <2>1, <2>2 DEF ContextPart
  <1>9. ASSUME NEW s \in Runs PROVE Fine(s)'
    <2>1. CASE s = r
      <3>1. pc'[r] = "after" /\ UNCHANGED <<span, trace, open, calls>>
        BY DEF RunType, work
      <3>2. SinceBegun(r)' /\ Fresh(r)' /\ FaultHasCause(r)'
        BY <3>1 DEF Fine, SinceBegun, Fresh, FaultHasCause, Asks
      <3>3. Untroubled' => InFlight(r)'
        <4>1. SUFFICES ASSUME Untroubled PROVE InFlight(r)'
          BY <1>5
        <4>2. InFlight(r) /\ open[r] = {}
          BY <4>1 DEF Fine, InFlight, Asks
        <4>3. got'[r] = r
          BY <1>3, <4>1, Grows DEF RunType, NotUpdated
        <4> QED BY <3>1, <4>2, <4>3 DEF InFlight
      <3> QED BY <2>1, <3>2, <3>3 DEF Fine
    <2>2. CASE s # r
      <3>1. pc'[s] = pc[s] /\ got'[s] = got[s] /\ UNCHANGED <<span, trace, open, calls>>
        BY <2>2 DEF RunType, work
      <3>2. NotUpdated' /\ pc[s] \in Asks => layers' = layers
        <4>1. SUFFICES ASSUME NotUpdated, pc[s] \in Asks PROVE layers' = layers
          BY <1>5
        <4>2. Cardinality(Registered) # 1
          BY <1>1, <2>2, <4>1, OnlyOneAsks DEF ContextPart, NotUpdated, Asks, Under
        <4> QED BY <4>2
      <3> QED BY <3>1, <3>2, OthersFine
    <2> QED BY <2>1, <2>2
  <1> QED BY <1>6, <1>7, <1>8, <1>9

LEMMA LeaveStep == ASSUME RunInv, NEW r \in Runs, Leave(r) PROVE RunInv'
  <1>1. pc[r] = "leaving" /\ UNCHANGED <<framework, typed, gen, finals, reusedDict, trouble>>
    BY DEF Leave
  <1>2. IF Cardinality(Registered) = 1 THEN Unwrap
        ELSE UNCHANGED <<original, layers, modelLayers, saved>>
    BY DEF Leave
  <1>3. CASE Cardinality(Registered) = 1 /\ framework = "llama_index" /\ LlamaIndexRaises
    <2>1. Over(r, "raw") /\ UNCHANGED <<contexts, lock>>
      BY <1>3 DEF Leave
    <2> QED BY <1>1, <1>2, <1>3, <2>1, LeaveRaises
  <1>4. CASE ~(Cardinality(Registered) = 1 /\ framework = "llama_index" /\ LlamaIndexRaises)
    <2>1. /\ contexts' = [contexts EXCEPT ![id[r]] = Nil]
          /\ got' = [got EXCEPT ![r] = contexts[id[r]]]
          /\ pc' = [pc EXCEPT ![r] = "after"]
          /\ UNCHANGED <<id, agentOf, heard, tries, fault, outcome, work>>
      BY <1>4 DEF Leave
    <2> QED BY <1>1, <1>2, <1>4, <2>1, LeaveQuietly
  <1> QED BY <1>3, <1>4

-----------------------------------------------------------------------------
(* The output type changes.                                                *)

LEMMA UpdateIs ==
  ASSUME RunType, UpdateOutputType
  PROVE  /\ UNCHANGED <<framework, modelLayers, original, saved, contexts, lock, reusedDict,
                        runs, work>>
         /\ trouble' = trouble \cup (IF Registered # {} THEN {"updated"} ELSE {})
         /\ \/ UNCHANGED <<gen, finals, layers>>
            \/ /\ gen' = gen + 1 /\ gen < MaxUpdates
               /\ \E t \in BOOLEAN : finals' = [finals EXCEPT ![gen + 1] = t]
               /\ layers' = [layers EXCEPT ![gen + 1] =
                    [e \in Entries |-> IF OpenAITool(e) THEN layers[gen][e] ELSE 0]]
  <1>1. /\ UNCHANGED <<framework, modelLayers, original, saved, contexts, lock, reusedDict,
                        runs, work>>
        /\ trouble' = trouble \cup (IF Registered # {} THEN {"updated"} ELSE {})
    BY DEF UpdateOutputType
  <1>2. PICK t \in BOOLEAN :
          \/ RenewAgno(t) \/ RenewGoogle(t) \/ RenewLlamaIndex(t)
          \/ RenewOpenAI(t) \/ RenewSmolagents(t) \/ RenewLangchain(t)
    BY DEF UpdateOutputType
  <1>3. CASE RenewSmolagents(t) \/ RenewLangchain(t)
    BY <1>1, <1>3 DEF RenewSmolagents, RenewLangchain
  <1>4. CASE RenewAgno(t) \/ RenewGoogle(t) \/ RenewLlamaIndex(t)
    <2>1. NewAgent(t, {}) /\ framework # "openai"
      BY <1>4 DEF RenewAgno, RenewGoogle, RenewLlamaIndex
    <2>2. [e \in Entries |-> IF e \in {} THEN layers[gen][e] ELSE 0] =
            [e \in Entries |-> IF OpenAITool(e) THEN layers[gen][e] ELSE 0]
      BY <2>1 DEF OpenAITool
    <2> QED BY <1>1, <2>1, <2>2 DEF NewAgent
  <1>5. CASE RenewOpenAI(t)
    <2>1. NewAgent(t, {"tool"}) /\ framework = "openai"
      BY <1>5 DEF RenewOpenAI
    <2>2. [e \in Entries |-> IF e \in {"tool"} THEN layers[gen][e] ELSE 0] =
            [e \in Entries |-> IF OpenAITool(e) THEN layers[gen][e] ELSE 0]
      BY <2>1 DEF OpenAITool
    <2> QED BY <1>1, <2>1, <2>2 DEF NewAgent
  <1> QED BY <1>2, <1>3, <1>4, <1>5

\* The new agent has no wrapper but around openai's tools.
LEMMA RenewedAgent ==
  ASSUME RunType, UpdateOutputType
  PROVE  /\ gen' \in 0..MaxUpdates
         /\ finals' \in [0..MaxUpdates -> BOOLEAN]
         /\ layers' \in [0..MaxUpdates -> [Entries -> Nat]]
         /\ \/ UNCHANGED <<gen, finals, layers>>
            \/ \A e \in Entries :
                 /\ layers'[gen'][e] = IF OpenAITool(e) THEN layers[gen][e] ELSE 0
                 /\ \A g \in 0..MaxUpdates : g # gen' => layers'[g][e] = layers[g][e]
  <1>1. gen \in 0..MaxUpdates /\ MaxUpdates \in Nat
    BY AgentRunAssumption DEF RunType
  <1>2. CASE UNCHANGED <<gen, finals, layers>>
    BY <1>1, <1>2 DEF RunType
  <1>3. CASE ~UNCHANGED <<gen, finals, layers>>
    <2>1. /\ gen' = gen + 1 /\ gen < MaxUpdates
          /\ \E t \in BOOLEAN : finals' = [finals EXCEPT ![gen + 1] = t]
          /\ layers' = [layers EXCEPT ![gen + 1] =
               [e \in Entries |-> IF OpenAITool(e) THEN layers[gen][e] ELSE 0]]
      BY <1>3, UpdateIs
    <2>2. gen' \in 0..MaxUpdates /\ finals' \in [0..MaxUpdates -> BOOLEAN]
      BY <1>1, <2>1 DEF RunType
    <2>3. PICK w : w = [e \in Entries |-> IF OpenAITool(e) THEN layers[gen][e] ELSE 0]
      OBVIOUS
    <2>4. layers' = [layers EXCEPT ![gen'] = w]
      BY <2>1, <2>3
    <2>5. w \in [Entries -> Nat]
      <3>1. layers[gen] \in [Entries -> Nat]
        BY <1>1 DEF RunType
      <3> QED BY <2>3, <3>1
    <2>6. layers' \in [0..MaxUpdates -> [Entries -> Nat]]
      BY <2>4, <2>5 DEF RunType
    <2>7. layers'[gen'] = w /\ \A g \in 0..MaxUpdates : g # gen' => layers'[g] = layers[g]
      BY <2>2, <2>4 DEF RunType
    <2> QED BY <2>2, <2>3, <2>6, <2>7
  <1> QED BY <1>2, <1>3

LEMMA UpdateStep == ASSUME RunInv, UpdateOutputType PROVE RunInv'
  <1> USE DEF RunInv
  <1>1. /\ UNCHANGED <<framework, modelLayers, original, saved, contexts, reusedDict, runs, work>>
        /\ trouble \subseteq trouble'
    BY UpdateIs
  <1>2. Registered' = Registered /\ (NotUpdated' => Registered = {})
    BY UpdateIs DEF Registered, NotUpdated
  <1>3. RunType'
    <2>1. /\ gen' \in 0..MaxUpdates /\ finals' \in [0..MaxUpdates -> BOOLEAN]
          /\ layers' \in [0..MaxUpdates -> [Entries -> Nat]]
      BY RenewedAgent
    <2> QED BY <1>1, <2>1 DEF RunType, runs, work
  <1>4. AgentPart'
    <2>1. Wraps' = Wraps /\ \A e : (OpenAITool(e)' <=> OpenAITool(e)) /\ (Stays(e)' <=> Stays(e))
      BY <1>1, SameWraps
    <2>2. gen \in 0..MaxUpdates /\ gen' \in 0..MaxUpdates
      BY RenewedAgent DEF RunType
    <2>3. OnlyItsOwn'
      <3>1. \A g \in 0..MaxUpdates, e \in Entries :
              e \notin Wraps => layers'[g][e] = 0 \/ (OpenAITool(e) /\ layers'[g][e] = 1)
        <4>1. \A g \in 0..MaxUpdates, e \in Entries :
                e \notin Wraps => layers[g][e] = 0 \/ (OpenAITool(e) /\ layers[g][e] = 1)
          BY DEF AgentPart, OnlyItsOwn
        <4>2. CASE layers' = layers
          BY <4>1, <4>2
        <4>3. CASE layers' # layers
          <5>1. SUFFICES ASSUME NEW g \in 0..MaxUpdates, NEW e \in Entries, e \notin Wraps
                         PROVE  layers'[g][e] = 0 \/ (OpenAITool(e) /\ layers'[g][e] = 1)
            OBVIOUS
          <5>2. /\ layers'[gen'][e] = IF OpenAITool(e) THEN layers[gen][e] ELSE 0
                /\ g # gen' => layers'[g][e] = layers[g][e]
            BY <4>3, RenewedAgent
          <5> QED BY <2>2, <4>1, <5>1, <5>2
        <4> QED BY <4>2, <4>3
      <3> QED BY <1>1, <2>1, <3>1 DEF AgentPart, OnlyItsOwn
    <2>4. OriginalsBare'
      BY <1>1, <2>1, Grows DEF AgentPart, OriginalsBare
    <2>5. BareWhenIdle'
      <3>1. SUFFICES ASSUME NotShared, Registered = {}
                     PROVE  modelLayers = 0 /\ \A e \in Entries : layers'[gen'][e] = 0 \/ Stays(e)
        BY <1>1, <1>2, <2>1, Grows DEF BareWhenIdle
      <3>2. modelLayers = 0 /\ \A e \in Entries : layers[gen][e] = 0 \/ Stays(e)
        BY <3>1 DEF AgentPart, BareWhenIdle
      <3> QED BY <3>2, RenewedAgent
    <2>6. WrappedWhenBusy'
      BY <1>2 DEF WrappedWhenBusy
    <2>7. SavedWhenBusy'
      BY <1>2, UpdateIs DEF SavedWhenBusy
    <2> QED BY <2>3, <2>4, <2>5, <2>6, <2>7 DEF AgentPart
  <1>5. ContextPart'
    BY <1>1, SameContexts DEF runs
  <1>6. ASSUME NEW s \in Runs PROVE Fine(s)'
    <2>1. ~(NotUpdated' /\ pc[s] \in Asks)
      <3>1. NotShared /\ pc[s] \in Under => id[s] \in Registered
        BY OwnId DEF ContextPart
      <3> QED BY <1>1, <1>2, <3>1, Grows DEF NotUpdated, Asks, Under
    <2> QED BY <1>1, <2>1, OthersFine DEF runs, work
  <1> QED BY <1>3, <1>4, <1>5, <1>6

-----------------------------------------------------------------------------

\* Nothing happens.
LEMMA RunStutters == ASSUME RunInv, UNCHANGED runVars PROVE RunInv'
  <1> USE DEF RunInv
  <1>1. UNCHANGED <<agentState, contexts, lock, reusedDict, runs, work, trouble>>
    BY DEF runVars
  <1>2. RunType'
    BY <1>1 DEF RunType, agentState, runs, work
  <1>3. AgentPart'
    BY <1>1, SameAgent
  <1>4. ContextPart'
    BY <1>1, SameContexts DEF runs
  <1>5. ASSUME NEW s \in Runs PROVE Fine(s)'
    BY <1>1, OthersFine DEF agentState, runs, work
  <1> QED BY <1>2, <1>3, <1>4, <1>5

\* What a step of RunNext is.
LEMMA RunSteps ==
  ASSUME RunNext
  PROVE  \/ \E r \in Runs : Enter(r) \/ Middle(r) \/ Leave(r) \/ AfterRun(r) \/ RunCancelled(r)
         \/ UpdateOutputType
  BY DEF RunNext, Middle

LEMMA RunStep == ASSUME RunInv, [RunNext]_runVars PROVE RunInv'
  <1>1. CASE UNCHANGED runVars
    BY <1>1, RunStutters
  <1>2. CASE UpdateOutputType
    BY <1>2, UpdateStep
  <1>3. ASSUME NEW r \in Runs, Enter(r) \/ Middle(r) \/ Leave(r) \/ AfterRun(r) \/ RunCancelled(r)
        PROVE  RunInv'
    BY <1>3, EnterStep, MiddleStep, LeaveStep, AfterStep, CancelledStep
  <1> QED BY <1>1, <1>2, <1>3, RunSteps

\* The invariant above holds in every reachable state: whatever number of runs
\* of run_async there are, on whichever of the six frameworks.
THEOREM RunInvariant == RunSpec => []RunInv
  <1>1. RunInit => RunInv
    BY RunStarts
  <1>2. RunInv /\ [RunNext]_runVars => RunInv'
    BY RunStep
  <1> QED BY <1>1, <1>2, PTL DEF RunSpec

LEMMA QuietIsBare ==
  ASSUME RunInv, Quiet, trouble \cap {"shared", "cancelled", "updated"} = {}
  PROVE  /\ Registered = {} /\ modelLayers = 0
         /\ \A e \in Entries :
              \/ layers[gen][e] = 0
              \/ e = "tool" /\ framework = "openai" /\ layers[gen][e] = 1
              \/ e = "tool" /\ framework = "agno"
  <1> USE DEF RunInv
  <1>1. NotShared /\ NotUpdated /\ "cancelled" \notin trouble
    BY DEF NotShared, NotUpdated
  <1>2. Registered = {}
    <2>1. SUFFICES ASSUME NEW i \in Registered PROVE FALSE
      OBVIOUS
    <2>2. i \in Ids /\ contexts[i] # Nil
      BY <2>1 DEF Registered
    <2>3. contexts[i] \in Runs /\ pc[contexts[i]] \in Under
      BY <1>1, <2>2 DEF RunType, ContextPart, NobodyLeftBehind
    <2> QED BY <2>3 DEF Quiet, Under
  <1>3. modelLayers = 0 /\ \A e \in Entries : layers[gen][e] = 0 \/ Stays(e)
    BY <1>1, <1>2 DEF AgentPart, BareWhenIdle
  <1>4. framework = "openai" => layers[gen]["tool"] \in {0, 1}
    <2>1. framework \in RunFrameworks /\ gen \in 0..MaxUpdates
      BY DEF RunType
    <2>2. framework = "openai" => "tool" \notin Wraps /\ "tool" \in Entries
      BY <2>1, WrapsIs DEF Entries
    <2> QED BY <2>1, <2>2 DEF AgentPart, OnlyItsOwn
  <1> QED BY <1>2, <1>3, <1>4 DEF Stays

\* The wrappers neither make a run fail nor stay on an agent that nobody runs,
\* on any framework and for any number of runs, calls and updates.
THEOREM WrappersAlwaysBehave == RunSpec => []WrappersBehave
  <1>1. RunInv => WrappersBehave
    <2>1. RunInv => WrapperFaultHasCause
      BY DEF RunInv, Fine, FaultHasCause, WrapperFaultHasCause
    <2>2. RunInv => WrappersComeOff
      BY QuietIsBare DEF WrappersComeOff
    <2> QED BY <2>1, <2>2 DEF WrappersBehave
  <1> QED BY <1>1, RunInvariant, PTL

\* Who gives a run its outcome.
LEMMA OutcomeIs ==
  ASSUME RunInv, [RunNext]_runVars, NEW r \in Runs, outcome'[r] = "trace", outcome[r] # "trace"
  PROVE  pc[r] = "after" /\ UNCHANGED trouble
  <1> USE DEF RunInv
  <1>1. CASE UNCHANGED runVars
    BY <1>1 DEF runVars, runs
  <1>2. CASE UpdateOutputType
    BY <1>2 DEF UpdateOutputType, runs
  <1>3. ASSUME NEW s \in Runs, Enter(s) \/ Middle(s)
        PROVE  FALSE
    BY <1>3, MiddleIs, EnterIs
  <1>4. ASSUME NEW s \in Runs, NEW o, Over(s, o)
        PROVE  s = r /\ o = "trace"
    <2>1. outcome' = [outcome EXCEPT ![s] = o] /\ DOMAIN outcome = Runs
      BY <1>4, OverIs DEF RunType
    <2> QED BY <2>1
  <1>5. ASSUME NEW s \in Runs, RunCancelled(s) PROVE FALSE
    <2>1. Over(s, "cancelled")
      BY <1>5 DEF RunCancelled
    <2> QED BY <2>1, <1>4
  <1>6. ASSUME NEW s \in Runs, Leave(s) PROVE FALSE
    <2>1. Over(s, "raw") \/ UNCHANGED outcome
      BY <1>6 DEF Leave
    <2> QED BY <2>1, <1>4
  <1>7. ASSUME NEW s \in Runs, AfterRun(s) PROVE pc[r] = "after" /\ UNCHANGED trouble
    <2>1. pc[s] = "after" /\ UNCHANGED trouble
      BY <1>7 DEF AfterRun
    <2>2. \E o : Over(s, o)
      BY <1>7 DEF AfterRun
    <2> QED BY <2>1, <2>2, <1>4
  <1> QED BY <1>1, <1>2, <1>3, <1>5, <1>6, <1>7, RunSteps

\* A trace that run_async returns has one span for each of the run's calls, in
\* their order, and none of another run's.
THEOREM TracesAreWhole == RunSpec => TraceIsWhole
  <1>1. ASSUME RunInv, [RunNext]_runVars, NEW r \in Runs, outcome'[r] = "trace",
               outcome[r] # "trace",
               trouble \cap {"shared", "parallel", "updated", "config"} = {}
        PROVE  /\ got[r] = r
               /\ trace[r] = [i \in DOMAIN calls[r] |-> <<r, calls[r][i]>>]
    <2>1. pc[r] = "after" /\ Untroubled
      BY <1>1, OutcomeIs DEF Untroubled
    <2> QED BY <1>1, <2>1 DEF RunInv, Fine, InFlight, TraceOf
  <1>2. RunInv /\ [RunNext]_runVars =>
          [\A r \in Runs :
             outcome'[r] = "trace" /\ outcome[r] # "trace"
             /\ trouble \cap {"shared", "parallel", "updated", "config"} = {}
               => /\ got[r] = r
                  /\ trace[r] = [i \in DOMAIN calls[r] |-> <<r, calls[r][i]>>]]_runVars
    BY <1>1
  <1> QED BY <1>2, RunInvariant, PTL DEF RunSpec, TraceIsWhole

-----------------------------------------------------------------------------
(* ChatAdapters: any conversation of any of the six adapters.              *)

\* What an answer is made of, and what the framework keeps of a turn.
CallRow == [index : Nat, ids : Nat, names : Nat, args : Nat, valid : BOOLEAN]
Says == [thinks : BOOLEAN, text : BOOLEAN, calls : Seq(CallRow), usage : BOOLEAN]
CallId == Nat \X Nat \X Nat
HeldCall == [id : CallId, valid : BOOLEAN]
HeldRow == [role : {"assistant", "tool", "user"}, calls : Seq(HeldCall), answers : Seq(CallId)]

ChatType ==
    /\ adapter \in Adapters /\ style \in Styles /\ mode \in {"whole", "stream", "astream"}
    /\ adapter = "google" => mode # "stream"
    /\ stage \in {"request", "answer", "chunks", "span", "tools", "end", "failed"}
    /\ stage = "chunks" => mode # "whole"
    /\ stage = "answer" => mode = "whole"
    /\ style \in {"repeats", "noindex"} => mode # "whole" /\ adapter = "llama_index"
    /\ round \in Nat /\ said \in Says /\ built \in Says /\ history \in Seq(HeldRow)

\* How far a stream that always fails gets.
StreamsFail ==
    /\ adapter = "agno" /\ mode = "astream" => stage \in {"request", "failed"}
    /\ adapter = "langchain" /\ mode = "stream" =>
         stage \in {"request", "failed"} \/ (stage = "chunks" /\ chunks = 0)

\* The calls of a stream stand in the order of their indexes, each is meant to
\* have one name, and an id unless the provider left them out.
IndexOf(i) == IF style = "noindex" THEN 0 ELSE i
Indexed(s) == \A i \in 1..Len(s) : s[i].index = IndexOf(i)
Named(s) == \A i \in 1..Len(s) : s[i].names = 1
HasIds(s) == \A i \in 1..Len(s) : s[i].ids # 0

\* What llama_index makes, in b, of the calls s.
Repeated(b, s) ==
    /\ Len(b) = Len(s)
    /\ \A i \in 1..Len(s) : b[i].index = i /\ b[i].args = s[i].args /\ b[i].names = s[i].args
Joins(b, s) ==
    /\ style \notin {"repeats", "noindex"} => b = s
    /\ style = "repeats" => Repeated(b, s)
    /\ style = "noindex" /\ Len(s) <= 1 => b = s

\* How far what the framework has follows what the provider said.
Follows ==
    stage \in {"chunks", "span"} =>
      /\ mode = "whole" \/ adapter \in {"agno", "openai", "smolagents"} => built = said
      /\ adapter = "langchain" => built.calls = said.calls /\ built.text = said.text
      /\ adapter = "llama_index" => Joins(built.calls, said.calls) /\ built.text = said.text
CallsInOrder ==
    /\ stage \in {"chunks", "span"} /\ mode # "whole" => Indexed(said.calls) /\ Named(said.calls)
    /\ style # "noids" => HasIds(said.calls) /\ HasIds(built.calls)

\* The span is the one of the message, whose calls are run.
SpanRead ==
    stage \in {"tools", "end"} =>
      /\ told = IF Wrapped THEN SpanOf(built) ELSE EmptySpan
      /\ stage = "tools" => built.calls # <<>>

\* The adapters but google's turn the history into messages one by one; google's
\* parts are joined.
OneMessage(m) ==
    CASE adapter = "agno" ->
           Message(m.role, [i \in DOMAIN m.calls |->
                              IF m.calls[i].id = NoId THEN <<0, i, 1>> ELSE m.calls[i].id],
                   Answered(m))
      [] adapter = "langchain" ->
           Message(m.role, IF Parsed(m.calls) = <<>> THEN IdsOf(m.calls)
                           ELSE [i \in DOMAIN Parsed(m.calls) |->
                                   IdsOf(m.calls)[Parsed(m.calls)[i]]],
                   Answered(m))
      [] adapter \in {"llama_index", "openai"} -> Message(m.role, IdsOf(m.calls), Answered(m))
      [] adapter = "smolagents" -> Message("text", <<>>, <<>>)
MessageRow == [role : {"assistant", "tool"}, calls : Seq(CallId), answers : CallId \cup {<<>>}]
GooglePart(m) ==
    [i \in DOMAIN m.answers |-> Message("tool", <<>>, m.answers[i])]
    \o (IF m.calls = <<>> THEN <<>> ELSE <<Message("assistant", IdsOf(m.calls), <<>>)>>)

\* Messages in which every call is answered, later, by one tool message, and
\* whose calls are of rounds before b.
Listed(s) == Len(s) \in Nat /\ DOMAIN s = 1..Len(s)
Paired(s) ==
    /\ \A k \in 1..Len(s) : \A i \in DOMAIN s[k].calls :
         \E j \in 1..Len(s) : j > k /\ s[j].role = "tool" /\ s[j].answers = s[k].calls[i]
    /\ \A j, l \in 1..Len(s) :
         s[j].role = "tool" /\ s[l].role = "tool" /\ s[j].answers = s[l].answers => j = l
    /\ \A j \in 1..Len(s) : s[j].role = "tool" =>
         \E k \in 1..(j - 1) : \E i \in DOMAIN s[k].calls : s[k].calls[i] = s[j].answers
RoundsBefore(s, b) ==
    \A k \in 1..Len(s) :
      /\ \A i \in DOMAIN s[k].calls : s[k].calls[i][1] \in Nat /\ s[k].calls[i][1] < b
      /\ s[k].role = "tool" => s[k].answers[1] \in Nat /\ s[k].answers[1] < b

\* The calls of the message that are run, and the ids their answers name.
Ran(n) == IF adapter = "langchain" THEN Parsed(built.calls) ELSE [i \in 1..n |-> i]
RanIds(n) == [i \in DOMAIN Ran(n) |-> AnswerId(Ran(n)[i])]
MadeCalls(n) == [i \in 1..n |-> [id |-> Id(round, i, built.calls[i].ids),
                                 valid |-> built.calls[i].valid]]

\* The next request is paired as it stands, unless the conversation is over.
HistoryPaired ==
    style # "noids" /\ stage \notin {"end", "failed"} =>
      /\ Listed(Messages(history)) /\ Paired(Messages(history))
      /\ RoundsBefore(Messages(history), IF stage = "request" THEN round + 1 ELSE round)
SentPaired == style # "noids" => Listed(sent) /\ Paired(sent)

\* The invariant the theorems about ChatAdapters rest on.
Answering ==
    ChatType /\ StreamsFail /\ Follows /\ CallsInOrder /\ SpanRead /\ ProperAnswersPass
ChatInv == Answering /\ HistoryPaired /\ SentPaired

-----------------------------------------------------------------------------
(* The pieces of a stream.                                                 *)

PieceRow == [of : Nat, index : Nat, ids : Nat, names : Nat, args : Nat]

LEMMA AddIs ==
  ASSUME NEW c \in CallRow, NEW p \in PieceRow
  PROVE  /\ Add(c, p) \in CallRow /\ Add(c, p).index = c.index
         /\ Add(c, p).names = c.names + p.names /\ Add(c, p).args = c.args + p.args
         /\ c.ids # 0 => Add(c, p).ids # 0
  <1>1. /\ c.ids \in Nat /\ c.names \in Nat /\ c.args \in Nat
        /\ p.ids \in Nat /\ p.names \in Nat /\ p.args \in Nat
    BY DEF CallRow, PieceRow
  <1>2. PICK i, n, a \in Nat : i = c.ids + p.ids /\ n = c.names + p.names /\ a = c.args + p.args
    BY <1>1
  <1>3. c.ids # 0 => i # 0
    BY <1>1, <1>2
  <1>4. Add(c, p) = [c EXCEPT !.ids = i, !.names = n, !.args = a]
    BY <1>2 DEF Add
  <1> QED BY <1>2, <1>3, <1>4 DEF CallRow

\* One more piece of the arguments, whatever it repeats.
OneMore(c, p) == [c EXCEPT !.args = @ + p.args]

LEMMA OneMoreIs ==
  ASSUME NEW c \in CallRow, NEW p \in PieceRow
  PROVE  /\ OneMore(c, p) \in CallRow /\ OneMore(c, p).index = c.index
         /\ OneMore(c, p).names = c.names /\ OneMore(c, p).ids = c.ids
         /\ OneMore(c, p).args = c.args + p.args
         /\ p.ids = 0 /\ p.names = 0 => Add(c, p) = OneMore(c, p)
  <1>1. /\ c.ids \in Nat /\ c.names \in Nat /\ c.args \in Nat /\ p.args \in Nat
    BY DEF CallRow, PieceRow
  <1>2. PICK a \in Nat : a = c.args + p.args
    BY <1>1
  <1>3. OneMore(c, p) = [c EXCEPT !.args = a]
    BY <1>2 DEF OneMore
  <1>4. /\ OneMore(c, p) \in CallRow /\ OneMore(c, p).index = c.index
        /\ OneMore(c, p).names = c.names /\ OneMore(c, p).ids = c.ids /\ OneMore(c, p).args = a
    BY <1>2, <1>3 DEF CallRow
  <1>5. ASSUME p.ids = 0, p.names = 0 PROVE Add(c, p) = OneMore(c, p)
    <2>1. c.ids + p.ids = c.ids /\ c.names + p.names = c.names
      BY <1>1, <1>5
    <2>2. Add(c, p) = [c EXCEPT !.ids = c.ids, !.names = c.names, !.args = a]
      BY <1>2, <2>1 DEF Add
    <2> QED BY <1>3, <2>2 DEF CallRow
  <1> QED BY <1>2, <1>4, <1>5

LEMMA NewCallIs ==
  ASSUME NEW p \in PieceRow
  PROVE  /\ NewCall(p) \in CallRow /\ NewCall(p).index = p.index /\ NewCall(p).ids = p.ids
         /\ NewCall(p).names = p.names /\ NewCall(p).args = p.args
  BY DEF NewCall, Call, CallRow, PieceRow

LEMMA RowsReplaced ==
  ASSUME NEW R, NEW s \in Seq(R), NEW j \in 1..Len(s), NEW c \in R, NEW t, t = [s EXCEPT ![j] = c]
  PROVE  /\ t \in Seq(R) /\ Len(t) = Len(s) /\ t[j] = c
         /\ \A i \in 1..Len(s) : i # j => t[i] = s[i]
  OBVIOUS

LEMMA RowAdded ==
  ASSUME NEW R, NEW s \in Seq(R), NEW c \in R, NEW t, t = Append(s, c)
  PROVE  /\ t \in Seq(R) /\ Len(t) = Len(s) + 1 /\ t[Len(s) + 1] = c
         /\ \A i \in 1..Len(s) : t[i] = s[i]
  OBVIOUS

\* What is sent of the calls s: a first piece names its call, and what comes
\* later repeats its id and its name in one style only.
Sends(s, p) ==
    /\ p.of \in 1..(Len(s) + 1) /\ p.index = IndexOf(p.of) /\ p.args = 1
    /\ p.of > Len(s) => p.names = 1 /\ (style # "noids" => p.ids # 0)
    /\ p.of <= Len(s) /\ style # "repeats" => p.ids = 0 /\ p.names = 0
    /\ style = "repeats" => p.names = 1 /\ p.ids # 0
    /\ style = "noindex" => p.of = Len(s) + 1

\* A piece of a call is one more of it, or makes it if it is the first.
LEMMA MeantIs ==
  ASSUME NEW s \in Seq(CallRow), NEW p \in PieceRow, Indexed(s), Named(s), p # NoPiece, Sends(s, p)
  PROVE  /\ Meant(s, p) \in Seq(CallRow) /\ Indexed(Meant(s, p)) /\ Named(Meant(s, p))
         /\ style # "noids" /\ HasIds(s) => HasIds(Meant(s, p))
         /\ p.of <= Len(s) =>
              /\ Meant(s, p) = [s EXCEPT ![p.of] = OneMore(s[p.of], p)]
              /\ Len(Meant(s, p)) = Len(s) /\ Meant(s, p)[p.of] = OneMore(s[p.of], p)
              /\ \A i \in 1..Len(s) : i # p.of => Meant(s, p)[i] = s[i]
         /\ p.of > Len(s) =>
              /\ Meant(s, p) = Append(s, NewCall(p))
              /\ Len(Meant(s, p)) = Len(s) + 1 /\ Meant(s, p)[Len(s) + 1] = NewCall(p)
              /\ \A i \in 1..Len(s) : Meant(s, p)[i] = s[i]
  <1>0. Len(s) \in Nat /\ p.of \in 1..(Len(s) + 1)
    BY DEF Sends
  <1>2. CASE p.of <= Len(s)
    <2>1. PICK c : c = OneMore(s[p.of], p)
      OBVIOUS
    <2>2. p.of \in 1..Len(s) /\ s[p.of] \in CallRow
      BY <1>0, <1>2
    <2>3. c \in CallRow /\ c.index = s[p.of].index /\ c.names = s[p.of].names /\ c.ids = s[p.of].ids
      BY <2>1, <2>2, OneMoreIs
    <2>4. Meant(s, p) = [s EXCEPT ![p.of] = c]
      BY <1>2, <2>1 DEF Meant, OneMore
    <2> HIDE DEF Meant
    <2>5. /\ Meant(s, p) \in Seq(CallRow) /\ Len(Meant(s, p)) = Len(s)
          /\ Meant(s, p)[p.of] = c
          /\ \A i \in 1..Len(s) : i # p.of => Meant(s, p)[i] = s[i]
      BY <2>2, <2>3, <2>4, RowsReplaced
    <2>6. Indexed(Meant(s, p)) /\ Named(Meant(s, p)) /\ (HasIds(s) => HasIds(Meant(s, p)))
      BY <2>2, <2>3, <2>5 DEF Indexed, Named, HasIds
    <2>7. ~(p.of > Len(s))
      BY <1>0, <1>2
    <2> QED BY <2>1, <2>4, <2>5, <2>6, <2>7
  <1>3. CASE p.of = Len(s) + 1
    <2>1. ~(p.of <= Len(s)) /\ p.of > Len(s)
      BY <1>0, <1>3
    <2>2. PICK c : c = NewCall(p)
      OBVIOUS
    <2>3. c \in CallRow /\ c.index = p.index /\ c.ids = p.ids /\ c.names = p.names
      BY <2>2, NewCallIs
    <2>4. Meant(s, p) = Append(s, c)
      BY <2>1, <2>2 DEF Meant
    <2> HIDE DEF Meant
    <2>5. /\ Meant(s, p) \in Seq(CallRow) /\ Len(Meant(s, p)) = Len(s) + 1
          /\ Meant(s, p)[Len(s) + 1] = c
          /\ \A i \in 1..Len(s) : Meant(s, p)[i] = s[i]
      BY <2>3, <2>4, RowAdded
    <2>6. p.index = IndexOf(Len(s) + 1) /\ p.names = 1 /\ (style # "noids" => p.ids # 0)
      BY <1>3, <2>1 DEF Sends
    <2>7. \A i \in 1..(Len(s) + 1) : i \in 1..Len(s) \/ i = Len(s) + 1
      BY <1>0
    <2>8. Indexed(Meant(s, p)) /\ Named(Meant(s, p))
      BY <2>3, <2>5, <2>6, <2>7 DEF Indexed, Named
    <2>9. style # "noids" /\ HasIds(s) => HasIds(Meant(s, p))
      BY <2>3, <2>5, <2>6, <2>7 DEF HasIds
    <2> QED BY <2>1, <2>2, <2>4, <2>5, <2>8, <2>9
  <1> QED BY <1>0, <1>2, <1>3

\* Where a later piece repeats nothing, the piece joins the call it is meant for.
LEMMA MergedIsMeant ==
  ASSUME NEW s \in Seq(CallRow), NEW p \in PieceRow, p # NoPiece, Sends(s, p),
         style \notin {"repeats", "noindex"}
  PROVE  Merged(s, p) = Meant(s, p)
  <1>1. Len(s) \in Nat /\ p.of \in 1..(Len(s) + 1) /\ p.index = p.of
    BY DEF Sends, IndexOf
  <1>2. CASE p.of <= Len(s)
    <2>1. p.of \in 1..Len(s) /\ s[p.of] \in CallRow /\ p.ids = 0 /\ p.names = 0
      BY <1>1, <1>2 DEF Sends
    <2>2. Add(s[p.of], p) = OneMore(s[p.of], p)
      BY <2>1, OneMoreIs
    <2> QED BY <1>1, <1>2, <2>2 DEF Merged, Meant, OneMore
  <1>3. CASE p.of > Len(s)
    <2>1. ~(p.of <= Len(s))
      BY <1>1, <1>3
    <2> QED BY <1>1, <2>1 DEF Merged, Meant
  <1> QED BY <1>1, <1>2, <1>3

\* llama_index finds the call of a piece by its index, if it has one.
LEMMA UpdateFinds ==
  ASSUME NEW b \in Seq(CallRow), NEW p \in PieceRow, p.index \in 1..(Len(b) + 1),
         \A i \in 1..Len(b) : b[i].index = i
  PROVE  /\ p.index <= Len(b) =>
              UpdateToolCalls(b, p) = [b EXCEPT ![p.index] = Add(b[p.index], p)]
         /\ p.index > Len(b) => UpdateToolCalls(b, p) = Append(b, NewCall(p))
  <1> DEFINE same == {j \in DOMAIN b : b[j].index = p.index}
  <1>0. Len(b) \in Nat /\ p.index \in Nat /\ DOMAIN b = 1..Len(b)
    BY DEF PieceRow
  <1>1. same = {j \in 1..Len(b) : j = p.index}
    BY <1>0
  <1>2. ASSUME p.index <= Len(b)
        PROVE  UpdateToolCalls(b, p) = [b EXCEPT ![p.index] = Add(b[p.index], p)]
    <2>1. same = {p.index}
      BY <1>0, <1>1, <1>2
    <2>2. (CHOOSE j \in same : \A k \in same : j <= k) = p.index
      BY <1>0, <2>1
    <2>3. UpdateToolCalls(b, p) =
            [b EXCEPT ![CHOOSE j \in same : \A k \in same : j <= k] =
               Add(b[CHOOSE j \in same : \A k \in same : j <= k], p)]
      BY <2>1 DEF UpdateToolCalls
    <2> QED BY <2>2, <2>3, Zenon
  <1>3. ASSUME p.index > Len(b) PROVE UpdateToolCalls(b, p) = Append(b, NewCall(p))
    <2>1. same = {}
      BY <1>0, <1>1, <1>3
    <2> QED BY <2>1 DEF UpdateToolCalls
  <1> QED BY <1>2, <1>3

LEMMA PieceJoins ==
  ASSUME NEW s \in Seq(CallRow), NEW p \in PieceRow
  PROVE  /\ UpdateToolCalls(s, p) \in Seq(CallRow)
         /\ HasIds(s) /\ p.ids # 0 => HasIds(UpdateToolCalls(s, p))
  <1> DEFINE same == {j \in DOMAIN s : s[j].index = p.index}
  <1>0. Len(s) \in Nat /\ DOMAIN s = 1..Len(s)
    OBVIOUS
  <1>1. CASE same = {}
    <2>1. PICK c : c = NewCall(p)
      OBVIOUS
    <2>2. c \in CallRow /\ c.ids = p.ids
      BY <2>1, NewCallIs
    <2>3. UpdateToolCalls(s, p) = Append(s, c)
      BY <1>1, <2>1 DEF UpdateToolCalls
    <2>4. /\ UpdateToolCalls(s, p) \in Seq(CallRow) /\ Len(UpdateToolCalls(s, p)) = Len(s) + 1
          /\ UpdateToolCalls(s, p)[Len(s) + 1] = c
          /\ \A i \in 1..Len(s) : UpdateToolCalls(s, p)[i] = s[i]
      BY <2>2, <2>3, RowAdded
    <2> QED BY <1>0, <2>2, <2>4 DEF HasIds
  <1>2. CASE same # {}
    <2>1. PICK j : j = CHOOSE m \in same : \A k \in same : m <= k
      OBVIOUS
    <2>2. j \in same
      <3>1. same \in SUBSET Nat
        BY <1>0
      <3>2. Min(same) \in same /\ \A k \in same : Min(same) <= k
        BY <1>2, <3>1, Least
      <3> QED BY <2>1, <3>2
    <2>3. j \in 1..Len(s) /\ s[j] \in CallRow
      BY <1>0, <2>2
    <2>4. PICK c : c = Add(s[j], p)
      OBVIOUS
    <2>5. c \in CallRow /\ (s[j].ids # 0 => c.ids # 0)
      BY <2>3, <2>4, AddIs
    <2>6. UpdateToolCalls(s, p) = [s EXCEPT ![j] = c]
      BY <1>2, <2>1, <2>4 DEF UpdateToolCalls
    <2>7. /\ UpdateToolCalls(s, p) \in Seq(CallRow) /\ Len(UpdateToolCalls(s, p)) = Len(s)
          /\ UpdateToolCalls(s, p)[j] = c
          /\ \A i \in 1..Len(s) : i # j => UpdateToolCalls(s, p)[i] = s[i]
      BY <2>3, <2>5, <2>6, RowsReplaced
    <2> QED BY <2>3, <2>5, <2>7 DEF HasIds
  <1> QED BY <1>1, <1>2

\* So it joins a piece where it is meant to be, with what it repeats, and may
\* lose one without an index.
LEMMA UpdateJoins ==
  ASSUME NEW b \in Seq(CallRow), NEW s \in Seq(CallRow), NEW p \in PieceRow,
         Indexed(s), Named(s), p # NoPiece, Sends(s, p), Joins(b, s)
  PROVE  Joins(UpdateToolCalls(b, p), Meant(s, p))
  <1>0. Len(b) \in Nat /\ Len(s) \in Nat /\ p.of \in 1..(Len(s) + 1)
    BY DEF Sends
  <1>1. CASE style \notin {"repeats", "noindex"}
    <2>1. b = s /\ p.index = p.of
      BY <1>1 DEF Joins, Sends, IndexOf
    <2>2. \A i \in 1..Len(b) : b[i].index = i
      BY <1>1, <2>1 DEF Indexed, IndexOf
    <2>3. UpdateToolCalls(b, p) = Merged(s, p)
      <3>1. CASE p.of <= Len(s)
        BY <1>0, <2>1, <2>2, <3>1, UpdateFinds DEF Merged
      <3>2. CASE p.of > Len(s)
        <4>1. ~(p.index <= Len(s))
          BY <1>0, <2>1, <3>2
        <4> QED BY <1>0, <2>1, <2>2, <3>2, <4>1, UpdateFinds DEF Merged
      <3> QED BY <1>0, <3>1, <3>2
    <2> QED BY <1>1, <2>3, MergedIsMeant DEF Joins
  <1>2. CASE style = "repeats"
    <2>1. Repeated(b, s) /\ p.index = p.of /\ p.names = 1 /\ p.args = 1
      BY <1>2 DEF Joins, Sends, IndexOf
    <2>2. Len(b) = Len(s) /\ \A i \in 1..Len(b) : b[i].index = i
      BY <2>1 DEF Repeated
    <2>3. PICK u, t : u = UpdateToolCalls(b, p) /\ t = Meant(s, p)
      OBVIOUS
    <2>4. CASE p.of <= Len(s)
      <3>1. p.of \in 1..Len(s) /\ b[p.of] \in CallRow /\ s[p.of] \in CallRow
        BY <1>0, <2>2, <2>4
      <3>2. PICK c, d : c = Add(b[p.of], p) /\ d = OneMore(s[p.of], p)
        OBVIOUS
      <3>3. /\ c \in CallRow /\ c.index = p.of
            /\ c.names = b[p.of].names + 1 /\ c.args = b[p.of].args + 1
        BY <2>1, <2>2, <3>1, <3>2, AddIs
      <3>4. d.args = s[p.of].args + 1
        BY <2>1, <3>1, <3>2, OneMoreIs
      <3>5. u = [b EXCEPT ![p.of] = c]
        BY <2>1, <2>2, <2>3, <2>4, <3>1, <3>2, UpdateFinds
      <3>6. /\ Len(u) = Len(s) /\ u[p.of] = c
            /\ \A i \in 1..Len(s) : i # p.of => u[i] = b[i]
        BY <2>2, <3>1, <3>3, <3>5, RowsReplaced
      <3>7. /\ Len(t) = Len(s) /\ t[p.of] = d
            /\ \A i \in 1..Len(s) : i # p.of => t[i] = s[i]
        BY <2>3, <2>4, <3>2, MeantIs
      <3>8. b[p.of].args = s[p.of].args /\ b[p.of].names = s[p.of].args
        BY <2>1, <3>1 DEF Repeated
      <3>9. c.args = d.args /\ c.names = d.args
        BY <3>3, <3>4, <3>8
      <3>10. \A i \in 1..Len(s) : u[i].index = i /\ u[i].args = t[i].args /\ u[i].names = t[i].args
        <4>1. ASSUME NEW i \in 1..Len(s), i # p.of
              PROVE  u[i].index = i /\ u[i].args = t[i].args /\ u[i].names = t[i].args
          BY <2>1, <3>6, <3>7, <4>1 DEF Repeated
        <4> QED BY <3>3, <3>6, <3>7, <3>9, <4>1
      <3> QED BY <1>2, <2>3, <3>6, <3>7, <3>10 DEF Joins, Repeated
    <2>5. CASE p.of > Len(s)
      <3>1. PICK c : c = NewCall(p)
        OBVIOUS
      <3>2. p.of = Len(s) + 1
        BY <1>0, <2>5
      <3>3. c \in CallRow /\ c.index = Len(s) + 1 /\ c.names = 1 /\ c.args = 1
        BY <2>1, <3>1, <3>2, NewCallIs
      <3>4. u = Append(b, c)
        <4>1. p.index \in 1..(Len(b) + 1) /\ p.index > Len(b)
          BY <1>0, <2>1, <2>2, <2>5
        <4>2. UpdateToolCalls(b, p) = Append(b, NewCall(p))
          BY <2>2, <4>1, UpdateFinds
        <4> QED BY <2>3, <3>1, <4>2
      <3>5. /\ Len(u) = Len(s) + 1 /\ u[Len(s) + 1] = c
            /\ \A i \in 1..Len(s) : u[i] = b[i]
        BY <2>2, <3>3, <3>4, RowAdded
      <3>6. /\ Len(t) = Len(s) + 1 /\ t[Len(s) + 1] = c
            /\ \A i \in 1..Len(s) : t[i] = s[i]
        BY <2>3, <2>5, <3>1, MeantIs
      <3>7. \A i \in 1..(Len(s) + 1) : i \in 1..Len(s) \/ i = Len(s) + 1
        BY <1>0
      <3>8. \A i \in 1..(Len(s) + 1) :
              u[i].index = i /\ u[i].args = t[i].args /\ u[i].names = t[i].args
        <4>1. ASSUME NEW i \in 1..Len(s)
              PROVE  u[i].index = i /\ u[i].args = t[i].args /\ u[i].names = t[i].args
          BY <2>1, <3>5, <3>6 DEF Repeated
        <4> QED BY <3>3, <3>5, <3>6, <3>7, <4>1
      <3> QED BY <1>2, <2>3, <3>5, <3>6, <3>8 DEF Joins, Repeated
    <2> QED BY <1>0, <2>4, <2>5
  <1>3. CASE style = "noindex"
    <2>1. p.of = Len(s) + 1 /\ p.of > Len(s)
      BY <1>0, <1>3 DEF Sends
    <2>2. Len(Meant(s, p)) = Len(s) + 1 /\ Meant(s, p) = Append(s, NewCall(p))
      BY <2>1, MeantIs
    <2>3. ASSUME Len(Meant(s, p)) <= 1 PROVE UpdateToolCalls(b, p) = Meant(s, p)
      <3>1. Len(s) = 0 /\ Len(s) <= 1
        BY <1>0, <2>2, <2>3
      <3>2. b = s /\ DOMAIN b = {}
        BY <1>3, <3>1 DEF Joins
      <3>3. {j \in DOMAIN b : b[j].index = p.index} = {}
        BY <3>2
      <3> QED BY <2>2, <3>2, <3>3 DEF UpdateToolCalls
    <2> QED BY <1>3, <2>3 DEF Joins
  <1> QED BY <1>1, <1>2, <1>3

\* What the provider may send next.
LEMMA ChunksAre ==
  ASSUME said.calls \in Seq(CallRow), NEW e \in Chunks
  PROVE  /\ e.text \in BOOLEAN /\ e.usage \in BOOLEAN /\ e.choices \in BOOLEAN
         /\ e.piece \in PieceRow
         /\ e.piece # NoPiece => e.choices /\ ~e.usage
         /\ ~e.choices => ~e.text /\ e.piece = NoPiece
         /\ e.piece # NoPiece => Sends(said.calls, e.piece)
  <1>0. Len(said.calls) \in Nat
    OBVIOUS
  <1>1. NoPiece \in PieceRow
    BY DEF NoPiece, PieceRow
  <1>2. CASE e = Chunk(TRUE, NoPiece, FALSE, TRUE)
    <2>1. e.text = TRUE /\ e.piece = NoPiece /\ e.usage = FALSE /\ e.choices = TRUE
      BY <1>2 DEF Chunk
    <2> QED BY <1>1, <2>1
  <1>4. CASE e \in {Chunk(FALSE, NoPiece, TRUE, c) : c \in BOOLEAN}
    <2>1. PICK c \in BOOLEAN : e = Chunk(FALSE, NoPiece, TRUE, c)
      BY <1>4
    <2>2. e.text = FALSE /\ e.piece = NoPiece /\ e.usage = TRUE /\ e.choices = c
      BY <2>1 DEF Chunk
    <2> QED BY <1>1, <2>1, <2>2
  <1>3. CASE e \in {Chunk(FALSE, p, FALSE, TRUE) : p \in Pieces}
    <2>1. PICK i : /\ i \in 1..(Len(said.calls) + 1)
                   /\ style = "noindex" => i = Len(said.calls) + 1
                   /\ e = Chunk(FALSE, Piece(i), FALSE, TRUE)
      <3>1. PICK p \in Pieces : e = Chunk(FALSE, p, FALSE, TRUE)
        BY <1>3
      <3>2. PICK i \in (IF Len(said.calls) < MaxToolCalls THEN {Len(said.calls) + 1} ELSE {})
                        \cup (IF style = "noindex" THEN {} ELSE 1..Len(said.calls)) : p = Piece(i)
        BY DEF Pieces
      <3>3. i \in 1..(Len(said.calls) + 1) /\ (style = "noindex" => i = Len(said.calls) + 1)
        BY <1>0, <3>2
      <3> QED BY <3>1, <3>2, <3>3
    <2>2. Piece(i) \in PieceRow /\ Piece(i).of = i /\ Piece(i).index = IndexOf(i)
      BY <1>0, <2>1 DEF Piece, PieceRow, IndexOf
    <2>4. Sends(said.calls, Piece(i))
      <3>1. i <= Len(said.calls) => ~(i > Len(said.calls))
        BY <1>0, <2>1
      <3> QED BY <2>1, <3>1 DEF Piece, Sends, IndexOf
    <2>3. e.piece = Piece(i) /\ e.text = FALSE /\ e.usage = FALSE /\ e.choices = TRUE
      BY <2>1 DEF Chunk
    <2> QED BY <2>2, <2>3, <2>4
  <1> QED BY <1>2, <1>3, <1>4 DEF Chunks

LEMMA AnswersAre ==
  ASSUME NEW b \in Says
  PROVE  /\ b.text \in BOOLEAN /\ b.usage \in BOOLEAN /\ b.thinks \in BOOLEAN
         /\ b.calls \in Seq(CallRow) /\ Len(b.calls) \in Nat
  <1>1. b.calls \in Seq(CallRow)
    BY DEF Says
  <1>2. Len(b.calls) \in Nat
    BY <1>1
  <1> QED BY <1>1, <1>2 DEF Says

\* An answer of chunks grows, in order, by what the provider sends.
LEMMA SaidGrows ==
  ASSUME ChatType, CallsInOrder, stage = "chunks", NEW e \in Chunks
  PROVE  /\ Said(e) \in Says /\ Indexed(Said(e).calls) /\ Named(Said(e).calls)
         /\ style # "noids" => HasIds(Said(e).calls)
         /\ Said(e).calls = Meant(said.calls, e.piece) /\ Said(e).text = (said.text \/ e.text)
  <1>0. said \in Says /\ mode # "whole"
    BY DEF ChatType
  <1>1. /\ said.text \in BOOLEAN /\ said.usage \in BOOLEAN /\ said.calls \in Seq(CallRow)
        /\ Len(said.calls) \in Nat
    BY <1>0, AnswersAre
  <1>2. /\ e.text \in BOOLEAN /\ e.usage \in BOOLEAN /\ e.piece \in PieceRow
        /\ e.piece # NoPiece => Sends(said.calls, e.piece)
    BY <1>1, ChunksAre
  <1>3. Indexed(said.calls) /\ Named(said.calls) /\ (style # "noids" => HasIds(said.calls))
    BY <1>0 DEF CallsInOrder
  <1>4. PICK s : s = Meant(said.calls, e.piece)
    OBVIOUS
  <1>5. s \in Seq(CallRow) /\ Indexed(s) /\ Named(s) /\ (style # "noids" => HasIds(s))
    <2>1. CASE e.piece = NoPiece
      <3>1. s = said.calls
        BY <1>4, <2>1 DEF Meant
      <3> QED BY <1>1, <1>3, <3>1
    <2>2. CASE e.piece # NoPiece
      BY <1>1, <1>2, <1>3, <1>4, <2>2, MeantIs
    <2> QED BY <2>1, <2>2
  <1>6. PICK t, u \in BOOLEAN : t = (said.text \/ e.text) /\ u = (said.usage \/ e.usage)
    BY <1>1, <1>2
  <1>7. Said(e) = [said EXCEPT !.text = t, !.calls = s, !.usage = u]
    BY <1>4, <1>6, Zenon DEF Said
  <1>8. Said(e) \in Says /\ Said(e).calls = s /\ Said(e).text = t
    BY <1>0, <1>5, <1>6, <1>7 DEF Says
  <1> QED BY <1>4, <1>5, <1>6, <1>8

\* A framework that joins the pieces itself has what the provider means.
LEMMA MergedPiece ==
  ASSUME ChatType, CallsInOrder, stage = "chunks", NEW e \in Chunks, adapter # "llama_index"
  PROVE  Merged(said.calls, e.piece) = Meant(said.calls, e.piece)
  <1>1. said.calls \in Seq(CallRow) /\ style \notin {"repeats", "noindex"}
    BY AnswersAre DEF ChatType
  <1>2. CASE e.piece = NoPiece
    BY <1>2 DEF Merged, Meant
  <1>3. CASE e.piece # NoPiece
    BY <1>1, <1>3, ChunksAre, MergedIsMeant
  <1> QED BY <1>2, <1>3

\* What llama_index makes of a piece.
LEMMA LlamaIndexJoins ==
  ASSUME ChatType, Follows, CallsInOrder, stage = "chunks", adapter = "llama_index",
         NEW e \in Chunks, NEW s,
         s = IF e.piece = NoPiece THEN built.calls ELSE UpdateToolCalls(built.calls, e.piece)
  PROVE  /\ s \in Seq(CallRow)
         /\ style # "noids" => HasIds(s)
         /\ Joins(s, Said(e).calls)
  <1>0. said \in Says /\ built \in Says /\ mode # "whole"
    BY DEF ChatType
  <1>1. said.calls \in Seq(CallRow) /\ built.calls \in Seq(CallRow) /\ Len(said.calls) \in Nat
    BY <1>0, AnswersAre
  <1>2. e.piece \in PieceRow /\ (e.piece # NoPiece => Sends(said.calls, e.piece))
    BY <1>1, ChunksAre
  <1>3. /\ Indexed(said.calls) /\ Named(said.calls)
        /\ style # "noids" => HasIds(said.calls) /\ HasIds(built.calls)
    BY <1>0 DEF CallsInOrder
  <1>4. Joins(built.calls, said.calls)
    BY DEF Follows
  <1>5. Said(e).calls = Meant(said.calls, e.piece) /\ (style # "noids" => HasIds(Said(e).calls))
    BY SaidGrows
  <1>6. CASE e.piece = NoPiece
    <2>1. Said(e).calls = said.calls
      BY <1>5, <1>6 DEF Meant
    <2> QED BY <1>1, <1>3, <1>4, <1>6, <2>1
  <1>7. CASE e.piece # NoPiece
    <2>1. Joins(s, Said(e).calls)
      BY <1>1, <1>2, <1>3, <1>4, <1>5, <1>7, UpdateJoins
    <2>2. s \in Seq(CallRow) /\ (HasIds(built.calls) => HasIds(s) \/ e.piece.ids = 0)
      BY <1>1, <1>2, <1>7, PieceJoins
    <2>3. style # "noids" /\ e.piece.ids = 0 => HasIds(s)
      <3>1. SUFFICES ASSUME style # "noids", e.piece.ids = 0 PROVE HasIds(s)
        OBVIOUS
      <3>2. e.piece.of <= Len(said.calls) /\ style # "noindex"
        <4>1. /\ e.piece.of \in 1..(Len(said.calls) + 1) /\ ~(e.piece.of > Len(said.calls))
              /\ style = "noindex" => e.piece.of = Len(said.calls) + 1
          BY <1>2, <1>7, <3>1 DEF Sends
        <4> QED BY <1>1, <4>1
      <3>3. style # "repeats"
        BY <1>2, <1>7, <3>1 DEF Sends
      <3> QED BY <1>5, <2>1, <3>1, <3>2, <3>3 DEF Joins
    <2> QED BY <1>3, <2>1, <2>2, <2>3
  <1> QED BY <1>6, <1>7

\* A langchain chunk that is converted has what was sent, but for the usage.
LEMMA ChunkConverted ==
  ASSUME NEW e \in Chunks
  PROVE  /\ LangchainChunk(e).text = e.text /\ LangchainChunk(e).piece = e.piece
         /\ LangchainChunk(e).usage = FALSE
  <1>1. /\ DOMAIN e = {"text", "piece", "usage", "choices"}
        /\ e = [text |-> e.text, piece |-> e.piece, usage |-> e.usage, choices |-> e.choices]
    BY DEF Chunks, Chunk
  <1> QED BY <1>1 DEF LangchainChunk

\* The framework's message grows with it.
LEMMA BuiltFollows ==
  ASSUME ChatType, Follows, CallsInOrder, stage = "chunks", ChatAssumption, NEW e \in Chunks
  PROVE  /\ Delta(e) \in Says
         /\ style # "noids" => HasIds(Delta(e).calls)
         /\ adapter \in {"agno", "openai", "smolagents"} => Delta(e) = Said(e)
         /\ adapter = "langchain" =>
              Delta(e).calls = Said(e).calls /\ Delta(e).text = Said(e).text
         /\ adapter = "llama_index" =>
              Joins(Delta(e).calls, Said(e).calls) /\ Delta(e).text = Said(e).text
  <1>0. said \in Says /\ built \in Says /\ mode # "whole"
    BY DEF ChatType
  <1>1. /\ built.text \in BOOLEAN /\ built.usage \in BOOLEAN /\ built.calls \in Seq(CallRow)
        /\ said.calls \in Seq(CallRow) /\ said.text \in BOOLEAN
    BY <1>0, AnswersAre
  <1>2. /\ e.text \in BOOLEAN /\ e.usage \in BOOLEAN /\ e.choices \in BOOLEAN
        /\ e.piece \in PieceRow
        /\ ~e.choices => ~e.text /\ e.piece = NoPiece
    BY <1>1, ChunksAre
  <1>3. /\ Said(e) \in Says /\ (style # "noids" => HasIds(Said(e).calls))
        /\ Said(e).calls = Meant(said.calls, e.piece) /\ Said(e).text = (said.text \/ e.text)
    BY SaidGrows
  <1>4. adapter # "llama_index" => Merged(said.calls, e.piece) = Meant(said.calls, e.piece)
    BY MergedPiece
  <1>5. ~e.choices => Said(e).calls = said.calls /\ Said(e).text = said.text
    <2>1. SUFFICES ASSUME ~e.choices PROVE Said(e).calls = said.calls /\ Said(e).text = said.text
      OBVIOUS
    <2>2. e.piece = NoPiece /\ e.text = FALSE
      BY <1>2, <2>1
    <2>3. Said(e).calls = said.calls
      BY <1>3, <2>2 DEF Meant
    <2> QED BY <1>1, <1>3, <2>2, <2>3
  <1>6. style # "noids" => HasIds(built.calls)
    BY DEF CallsInOrder
  <1>7. CASE adapter \in {"agno", "openai", "smolagents"}
    <2>1. built = said
      BY <1>7 DEF Follows
    <2>2. Joined(e) = Said(e)
      BY <1>4, <1>7, <2>1 DEF Joined, Said
    <2>3. Delta(e) = Joined(e)
      BY <1>7 DEF Delta, AgnoDelta, OpenAIDelta, SmolagentsDelta
    <2> QED BY <1>3, <1>7, <2>2, <2>3
  <1>8. CASE adapter = "google"
    <2>1. Delta(e) = built
      BY <1>8 DEF Delta, GoogleDelta
    <2> QED BY <1>0, <1>6, <1>8, <2>1
  <1>9. CASE adapter = "langchain"
    <2>1. built.calls = said.calls /\ built.text = said.text
      BY <1>9 DEF Follows
    <2>2. CASE ~e.choices
      <3>1. Delta(e) = built
        BY <1>9, <2>2 DEF Delta, LangchainDelta
      <3> QED BY <1>0, <1>5, <1>6, <1>9, <2>1, <2>2, <3>1
    <2>3. CASE e.choices
      <3>1. PICK s : s = Said(e).calls
        OBVIOUS
      <3>2. s \in Seq(CallRow)
        BY <1>3, <3>1 DEF Says
      <3>3. PICK t \in BOOLEAN : t = (said.text \/ e.text)
        BY <1>1, <1>2
      <3>4. Delta(e) = [built EXCEPT !.text = t, !.calls = s, !.usage = built.usage]
        <4>1. (built.usage \/ FALSE) = built.usage
          BY <1>1
        <4>2. Merged(built.calls, e.piece) = s
          BY <1>3, <1>4, <1>9, <2>1, <3>1
        <4>3. Delta(e) = Joined(LangchainChunk(e))
          BY <1>9, <2>3 DEF Delta, LangchainDelta
        <4>4. Joined(LangchainChunk(e)) =
                [built EXCEPT !.text = built.text \/ e.text, !.calls = Merged(built.calls, e.piece),
                              !.usage = built.usage \/ FALSE]
          BY ChunkConverted, Zenon DEF Joined
        <4> QED BY <2>1, <3>3, <4>1, <4>2, <4>3, <4>4
      <3>5. Delta(e) \in Says /\ Delta(e).calls = s /\ Delta(e).text = t
        BY <1>0, <1>1, <3>2, <3>4 DEF Says
      <3> QED BY <1>3, <1>9, <3>1, <3>3, <3>5
    <2> QED BY <1>2, <2>2, <2>3
  <1>10. CASE adapter = "llama_index"
    <2>1. Joins(built.calls, said.calls) /\ built.text = said.text
      BY <1>10 DEF Follows
    <2>2. CASE ~e.choices
      <3>1. Delta(e) = built
        BY <1>10, <2>2 DEF Delta, LlamaIndexDelta
      <3> QED BY <1>0, <1>5, <1>6, <1>10, <2>1, <2>2, <3>1
    <2>3. CASE e.choices
      <3>1. PICK s : s = IF e.piece = NoPiece THEN built.calls
                         ELSE UpdateToolCalls(built.calls, e.piece)
        OBVIOUS
      <3>2. s \in Seq(CallRow) /\ (style # "noids" => HasIds(s)) /\ Joins(s, Said(e).calls)
        BY <1>10, <3>1, LlamaIndexJoins
      <3>3. PICK t \in BOOLEAN : t = (built.text \/ e.text)
        BY <1>1, <1>2
      <3>4. Delta(e) = [built EXCEPT !.text = t, !.calls = s, !.usage = e.usage]
        BY <1>10, <2>3, <3>1, <3>3 DEF Delta, LlamaIndexDelta
      <3>5. Delta(e) \in Says /\ Delta(e).calls = s /\ Delta(e).text = t
        BY <1>0, <1>2, <3>2, <3>4 DEF Says
      <3> QED BY <1>3, <1>10, <2>1, <3>2, <3>3, <3>5
    <2> QED BY <1>2, <2>2, <2>3
  <1> QED BY <1>7, <1>8, <1>9, <1>10 DEF ChatAssumption, ChatType

-----------------------------------------------------------------------------
(* An answer comes in, and its span is written.                            *)

LEMMA AnswerBegins ==
  /\ NoAnswer \in Says
  /\ Indexed(NoAnswer.calls) /\ Named(NoAnswer.calls) /\ HasIds(NoAnswer.calls)
  /\ Len(NoAnswer.calls) = 0
  <1>1. <<>> \in Seq(CallRow) /\ Len(<<>>) = 0
    OBVIOUS
  <1> QED BY <1>1 DEF NoAnswer, Says, Indexed, Named, HasIds

LEMMA FailingIs ==
  ASSUME NEW a, NEW m
  PROVE  <<a, m>> \in StreamsThatFail <=>
           \/ a = "agno" /\ m = "astream"
           \/ a = "langchain" /\ m = "stream"
  BY DEF StreamsThatFail

LEMMA AinvokeAnswering == ASSUME Answering, AinvokeStream PROVE Answering'
  <1>1. /\ stage = "request" /\ stage' = "failed" /\ adapter = "agno" /\ mode = "astream"
        /\ UNCHANGED <<adapter, style, mode, round, said, built, chunks, told, history>>
    BY DEF AinvokeStream, Fail
  <1>2. ChatType' /\ Follows' /\ CallsInOrder'
    BY <1>1 DEF Answering, ChatType, Follows, CallsInOrder, Indexed, Named, HasIds, IndexOf
  <1>3. StreamsFail' /\ SpanRead'
    BY <1>1 DEF StreamsFail, SpanRead
  <1>4. ProperAnswersPass'
    BY <1>1, FailingIs DEF ProperAnswersPass
  <1> QED BY <1>2, <1>3, <1>4 DEF Answering

LEMMA RequestAnswering == ASSUME Answering, Request PROVE Answering'
  <1>1. round \in Nat /\ MaxRounds = MaxRounds
    BY DEF Answering, ChatType
  <1>2. PICK r \in Nat : r = round + 1
    BY <1>1
  <1>3. ChatType'
    BY <1>2, AnswerBegins DEF Answering, ChatType, Request
  <1>4. Follows' /\ CallsInOrder'
    <2>1. Joins(NoAnswer.calls, NoAnswer.calls) /\ NoAnswer.calls = <<>>
      BY AnswerBegins DEF Joins, Repeated, NoAnswer
    <2>2. /\ said' = NoAnswer /\ built' = NoAnswer
          /\ UNCHANGED <<adapter, style, mode>>
      BY DEF Request
    <2>3. Joins(built.calls, said.calls)'
      BY <2>1, <2>2 DEF Joins, Repeated
    <2>4. /\ Indexed(said.calls)' /\ Named(said.calls)'
          /\ HasIds(said.calls)' /\ HasIds(built.calls)'
      BY <2>2, AnswerBegins DEF Indexed, Named, HasIds, IndexOf
    <2> QED BY <2>2, <2>3, <2>4 DEF Follows, CallsInOrder
  <1>5. SpanRead' /\ ProperAnswersPass' /\ StreamsFail'
    BY DEF SpanRead, ProperAnswersPass, StreamsFail, Request
  <1> QED BY <1>3, <1>4, <1>5 DEF Answering

LEMMA AnswerMade ==
  ASSUME NEW S, NEW c \in Seq(CallRow),
         NEW a \in [thinks : BOOLEAN, text : BOOLEAN, usage : BOOLEAN, calls : S]
  PROVE  [a EXCEPT !.calls = c] \in Says /\ [a EXCEPT !.calls = c].calls = c
  BY DEF Says

LEMMA WholeAnswers ==
  ASSUME ChatAssumption, NEW a \in Answers, NEW w, w = [a EXCEPT !.calls = WholeCalls(a)]
  PROVE  w \in Says /\ (style # "noids" => HasIds(w.calls))
  <1>1. PICK n \in Nat : a.calls \in [1..n -> [valid : BOOLEAN]]
    <2>1. a.calls \in UNION {[1..k -> [valid : BOOLEAN]] : k \in 0..MaxToolCalls}
      BY DEF Answers
    <2>2. PICK n \in 0..MaxToolCalls : a.calls \in [1..n -> [valid : BOOLEAN]]
      BY <2>1
    <2> QED BY <2>2 DEF ChatAssumption
  <1>2. PICK c : c = WholeCalls(a)
    OBVIOUS
  <1>3. PICK m \in {0, 1} : m = IF style = "noids" THEN 0 ELSE 1
    OBVIOUS
  <1>4. \A i \in 1..n : Call(i, m, 1, 1, a.calls[i].valid) \in CallRow
                        /\ Call(i, m, 1, 1, a.calls[i].valid).ids = m
    <2>1. \A i \in 1..n : a.calls[i].valid \in BOOLEAN
      BY <1>1
    <2> QED BY <2>1 DEF Call, CallRow
  <1>5. c = [i \in 1..n |-> Call(i, m, 1, 1, a.calls[i].valid)]
    BY <1>1, <1>2, <1>3 DEF WholeCalls
  <1>6. c \in Seq(CallRow) /\ Len(c) = n /\ \A i \in 1..n : c[i].ids = m
    <2>1. c \in [1..n -> CallRow]
      BY <1>4, <1>5
    <2> QED BY <2>1, <1>4, <1>5
  <1>7. PICK S : a \in [thinks : BOOLEAN, text : BOOLEAN, usage : BOOLEAN, calls : S]
    BY DEF Answers
  <1>8. w \in Says /\ w.calls = c
    BY <1>2, <1>6, <1>7, AnswerMade
  <1> QED BY <1>3, <1>6, <1>8 DEF HasIds

LEMMA AnswerAnswering == ASSUME ChatAssumption, Answering, Answer PROVE Answering'
  <1>0. /\ ChatType /\ CallsInOrder /\ ProperAnswersPass /\ StreamsFail
        /\ mode = "whole" /\ stage = "answer"
    BY DEF Answering, ChatType, Answer
  <1>1. PICK w : (style # "noids" => HasIds(w.calls)) /\ w \in Says /\ said' = w /\ Parse(w)
    <2>1. PICK a \in Answers :
            /\ said' = [a EXCEPT !.calls = WholeCalls(a)]
            /\ Parse([a EXCEPT !.calls = WholeCalls(a)])
      BY DEF Answer
    <2>2. PICK w : w = [a EXCEPT !.calls = WholeCalls(a)]
      OBVIOUS
    <2> QED BY <2>1, <2>2, WholeAnswers
  <1>3. UNCHANGED <<adapter, style, mode, round, chunks, told, history, sent>>
    BY DEF Answer
  <1>4. \/ built' = w /\ stage' = "span"
        \/ /\ built' = built /\ stage' = "failed"
           /\ \/ AnyInvalid(w.calls)
              \/ adapter = "llama_index" /\ w.calls = <<>>
              \/ ~w.usage
    BY <1>0, <1>1 DEF Parse, AgnoParse, GoogleParse, LangchainParse, LlamaIndexParse, OpenAIParse,
                 SmolagentsParse, Fail, ChatAssumption, ChatType
  <1>5. ChatType'
    BY <1>0, <1>1, <1>3, <1>4 DEF ChatType
  <1>6. Follows' /\ CallsInOrder' /\ SpanRead' /\ StreamsFail'
    <2>1. mode' = "whole" /\ style \notin {"repeats", "noindex"} /\ style' = style
      BY <1>0, <1>3 DEF ChatType
    <2>2. HasIds(said.calls)' <=> HasIds(w.calls)
      BY <1>1 DEF HasIds
    <2>3. HasIds(built.calls)' <=> (HasIds(built.calls) /\ built' = built)
                                  \/ (HasIds(w.calls) /\ built' = w)
      BY <1>4 DEF HasIds
    <2>4. CallsInOrder'
      BY <1>0, <1>1, <1>4, <2>1, <2>2, <2>3 DEF CallsInOrder
    <2>5. stage' = "span" => built' = said'
      BY <1>1, <1>4
    <2>6. Joins(built.calls, said.calls)' <=> built'.calls = said'.calls
      BY <2>1 DEF Joins
    <2>7. Follows'
      BY <1>0, <1>4, <2>1, <2>5, <2>6 DEF Follows
    <2>8. SpanRead' /\ StreamsFail'
      BY <1>4, <2>1 DEF SpanRead, StreamsFail
    <2> QED BY <2>4, <2>7, <2>8
  <1>7. ProperAnswersPass'
    <2>1. (AnyInvalid(said.calls))' <=> AnyInvalid(w.calls)
      BY <1>1 DEF AnyInvalid
    <2>2. mode' = "whole" /\ <<adapter', mode'>> \notin StreamsThatFail
      BY <1>0, <1>3, FailingIs
    <2> QED BY <1>0, <1>1, <1>3, <1>4, <2>1, <2>2 DEF ProperAnswersPass
  <1> QED BY <1>5, <1>6, <1>7 DEF Answering

LEMMA ChunkAnswering == ASSUME ChatAssumption, Answering, StreamChunk PROVE Answering'
  <1>0. ChatType /\ StreamsFail /\ Follows /\ CallsInOrder /\ stage = "chunks"
    BY DEF Answering, StreamChunk
  <1>1. PICK e \in Chunks :
          /\ ~e.choices => chunks > 0
          /\ said' = Said(e)
          /\ \/ LangchainBreaks(e) /\ stage' = "failed" /\ built' = built
             \/ ~LangchainBreaks(e) /\ stage' = "chunks" /\ built' = Delta(e)
    BY <1>0 DEF StreamChunk, Fail
  <1>2. UNCHANGED <<adapter, style, mode, round, told, history, sent>>
    BY DEF StreamChunk
  <1>3. PICK s, b : s = Said(e) /\ b = Delta(e)
    OBVIOUS
  <1>4. /\ s \in Says /\ b \in Says /\ Indexed(s.calls) /\ Named(s.calls)
        /\ style # "noids" => HasIds(s.calls) /\ HasIds(b.calls)
    BY <1>0, <1>3, SaidGrows, BuiltFollows
  <1>5. /\ adapter \in {"agno", "openai", "smolagents"} => b = s
        /\ adapter = "langchain" => b.calls = s.calls /\ b.text = s.text
        /\ adapter = "llama_index" => Joins(b.calls, s.calls) /\ b.text = s.text
    BY <1>0, <1>3, BuiltFollows
  <1>6. said' = s /\ mode # "whole" /\ said \in Says /\ built \in Says
    BY <1>0, <1>1, <1>3 DEF ChatType
  <1>7. CASE LangchainBreaks(e)
    <2>1. stage' = "failed" /\ built' = built /\ adapter = "langchain" /\ mode = "stream"
      BY <1>1, <1>7 DEF LangchainBreaks
    <2>2. ChatType'
      BY <1>0, <1>2, <1>4, <1>6, <2>1 DEF ChatType
    <2>3. CallsInOrder'
      <3>1. (HasIds(said.calls))' <=> HasIds(s.calls)
        BY <1>6 DEF HasIds
      <3>2. (HasIds(built.calls))' <=> HasIds(built.calls)
        BY <2>1 DEF HasIds
      <3> QED BY <1>0, <1>2, <1>4, <2>1, <3>1, <3>2 DEF CallsInOrder
    <2>4. Follows' /\ SpanRead' /\ StreamsFail'
      BY <1>2, <2>1 DEF Follows, SpanRead, StreamsFail
    <2>5. ProperAnswersPass'
      BY <1>2, <2>1, FailingIs DEF ProperAnswersPass
    <2> QED BY <2>2, <2>3, <2>4, <2>5 DEF Answering
  <1>8. CASE ~LangchainBreaks(e)
    <2>1. stage' = "chunks" /\ built' = b
      BY <1>1, <1>3, <1>8
    <2>2. ChatType'
      BY <1>0, <1>2, <1>4, <1>6, <2>1 DEF ChatType
    <2>3. Follows'
      <3>1. mode' # "whole"
        BY <1>2, <1>6
      <3>2. Joins(built.calls, said.calls)' <=> Joins(b.calls, s.calls)
        BY <1>2, <1>6, <2>1 DEF Joins, Repeated
      <3> QED BY <1>2, <1>5, <1>6, <2>1, <3>1, <3>2 DEF Follows
    <2>4. CallsInOrder'
      <3>1. /\ HasIds(said.calls)' <=> HasIds(s.calls)
            /\ HasIds(built.calls)' <=> HasIds(b.calls)
        BY <1>6, <2>1 DEF HasIds
      <3>2. Indexed(said.calls)' /\ Named(said.calls)'
        BY <1>2, <1>4, <1>6 DEF Indexed, Named, IndexOf
      <3> QED BY <1>2, <1>4, <3>1, <3>2 DEF CallsInOrder
    <2>5. StreamsFail'
      <3>1. ~(adapter = "agno" /\ mode = "astream")
        BY <1>0 DEF StreamsFail
      <3>2. ~(adapter = "langchain" /\ mode = "stream")
        <4>1. SUFFICES ASSUME adapter = "langchain", mode = "stream" PROVE FALSE
          OBVIOUS
        <4>2. chunks = 0
          BY <1>0, <4>1 DEF StreamsFail
        <4>3. e.choices
          BY <1>1, <4>2
        <4> QED BY <1>8, <4>1, <4>3 DEF LangchainBreaks
      <3> QED BY <1>2, <3>1, <3>2 DEF StreamsFail
    <2>6. SpanRead' /\ ProperAnswersPass'
      BY <2>1 DEF SpanRead, ProperAnswersPass
    <2> QED BY <2>2, <2>3, <2>4, <2>5, <2>6 DEF Answering
  <1> QED BY <1>7, <1>8

LEMMA EndAnswering == ASSUME Answering, StreamEnds PROVE Answering'
  <1>1. /\ stage = "chunks" /\ chunks > 0 /\ stage' = "span"
        /\ UNCHANGED <<adapter, style, mode, round, said, built, history>>
    BY DEF StreamEnds
  <1>2. ChatType'
    BY <1>1 DEF Answering, ChatType
  <1>3. Follows' /\ CallsInOrder'
    BY <1>1 DEF Answering, Follows, CallsInOrder, Joins, Repeated, Indexed, Named, HasIds, IndexOf
  <1>4. ~(adapter = "agno" /\ mode = "astream") /\ ~(adapter = "langchain" /\ mode = "stream")
    <2>1. chunks # 0
      BY <1>1
    <2> QED BY <1>1, <2>1 DEF Answering, StreamsFail
  <1>5. StreamsFail' /\ SpanRead'
    BY <1>1, <1>4 DEF StreamsFail, SpanRead
  <1>6. ProperAnswersPass'
    BY <1>1, <1>4, FailingIs DEF ProperAnswersPass
  <1> QED BY <1>2, <1>3, <1>5, <1>6 DEF Answering

LEMMA SpanAnswering == ASSUME ChatAssumption, Answering, AfterLlmCall PROVE Answering'
  <1>1. stage = "span" /\ UNCHANGED <<adapter, style, mode, round, said, built, history>>
    BY DEF AfterLlmCall
  <1>2. \/ /\ adapter = "smolagents" /\ Wrapped /\ ~built.text /\ built.calls = <<>>
           /\ stage' = "failed"
        \/ /\ told' = (IF Wrapped THEN SpanOf(built) ELSE EmptySpan)
           /\ stage' \in {"tools", "end"}
           /\ stage' = "tools" => built.calls # <<>>
    BY DEF AfterLlmCall, Fail
  <1>3. ChatType'
    BY <1>1, <1>2 DEF Answering, ChatType
  <1>4. Follows' /\ CallsInOrder'
    <2>1. /\ HasIds(said.calls)' <=> HasIds(said.calls)
          /\ HasIds(built.calls)' <=> HasIds(built.calls)
      BY <1>1 DEF HasIds
    <2> QED BY <1>1, <1>2, <2>1 DEF Answering, Follows, CallsInOrder
  <1>5. SpanOf(built)' = SpanOf(built) /\ (Wrapped' <=> Wrapped)
    BY <1>1 DEF SpanOf, AgnoSpan, GoogleSpan, LangchainSpan, LlamaIndexSpan, OpenAISpan,
                SmolagentsSpan, Wrapped
  <1>6. SpanRead'
    BY <1>1, <1>2, <1>5 DEF SpanRead
  <1>7. ~(adapter = "agno" /\ mode = "astream") /\ ~(adapter = "langchain" /\ mode = "stream")
    BY <1>1 DEF Answering, StreamsFail
  <1>8. StreamsFail'
    BY <1>1, <1>7 DEF StreamsFail
  <1>9. ProperAnswersPass'
    <2>1. adapter = "smolagents" => built = said
      BY <1>1 DEF Answering, Follows
    <2>2. <<adapter', mode'>> \notin StreamsThatFail
      BY <1>1, <1>7, FailingIs
    <2> QED BY <1>1, <1>2, <2>1, <2>2 DEF ProperAnswersPass
  <1> QED BY <1>3, <1>4, <1>6, <1>8, <1>9 DEF Answering

-----------------------------------------------------------------------------
(* A turn: the calls of a round, and after them their answers.             *)

TurnIds(ids, b) ==
    /\ Listed(ids) /\ \A i \in 1..Len(ids) : ids[i][1] = b
    /\ \A i, j \in 1..Len(ids) : ids[i] = ids[j] => i = j
TurnAdded(s, t, ids) ==
    /\ Listed(t) /\ Len(t) = Len(s) + 1 + Len(ids)
    /\ \A k \in 1..Len(s) : t[k] = s[k]
    /\ t[Len(s) + 1].role = "assistant" /\ t[Len(s) + 1].calls = ids
    /\ \A i \in 1..Len(ids) :
         /\ t[Len(s) + 1 + i].role = "tool" /\ DOMAIN t[Len(s) + 1 + i].calls = {}
         /\ t[Len(s) + 1 + i].answers = ids[i]

LEMMA PlacesOf ==
  ASSUME NEW n \in Nat, NEW m \in Nat, NEW k \in 1..(n + 1 + m)
  PROVE  k \in 1..n \/ k = n + 1 \/ \E i \in 1..m : k = n + 1 + i
  <1>1. CASE k <= n + 1
    BY <1>1
  <1>2. CASE k > n + 1
    <2>1. k - (n + 1) \in 1..m /\ k = n + 1 + (k - (n + 1))
      BY <1>2
    <2> QED BY <2>1
  <1> QED BY <1>1, <1>2

\* Messages that were paired are so with the turn added, since its ids are new.
LEMMA TurnPairs ==
  ASSUME NEW s, NEW t, NEW ids, NEW b \in Nat, Listed(s), Paired(s), RoundsBefore(s, b),
         TurnIds(ids, b), TurnAdded(s, t, ids)
  PROVE  Listed(t) /\ Paired(t) /\ RoundsBefore(t, b + 1)
  <1>1. PICK n, m \in Nat : n = Len(s) /\ m = Len(ids)
    BY DEF Listed, TurnIds
  <1>2. Listed(t) /\ Len(t) = n + 1 + m /\ DOMAIN ids = 1..m
    BY <1>1 DEF TurnAdded, TurnIds, Listed
  <1>3. \A k \in 1..n : t[k] = s[k]
    BY <1>1 DEF TurnAdded
  <1>4. t[n + 1].role = "assistant" /\ t[n + 1].calls = ids
    BY <1>1 DEF TurnAdded
  <1>5. ASSUME NEW i \in 1..m
        PROVE  /\ t[n + 1 + i].role = "tool" /\ DOMAIN t[n + 1 + i].calls = {}
               /\ t[n + 1 + i].answers = ids[i]
    BY <1>1 DEF TurnAdded
  <1>6. /\ \A i \in 1..m : ids[i][1] = b
        /\ \A i, j \in 1..m : ids[i] = ids[j] => i = j
    BY <1>1 DEF TurnIds
  <1>7. ASSUME NEW k \in 1..Len(t)
        PROVE  k \in 1..n \/ k = n + 1 \/ \E i \in 1..m : k = n + 1 + i
    BY <1>2, PlacesOf
  <1>8. \A k \in 1..n : k \in 1..Len(t)
    BY <1>2
  <1>9. \A i \in 1..m : n + 1 + i \in 1..Len(t) /\ n + 1 + i > n + 1
    BY <1>2
  <1>10. n + 1 \in 1..Len(t)
    BY <1>2
  <1>11. ASSUME NEW k \in 1..Len(t), NEW i \in DOMAIN t[k].calls
         PROVE  \E j \in 1..Len(t) : j > k /\ t[j].role = "tool" /\ t[j].answers = t[k].calls[i]
    <2>1. CASE k \in 1..n
      <3>1. PICK j \in 1..n : j > k /\ s[j].role = "tool" /\ s[j].answers = s[k].calls[i]
        BY <1>1, <1>3, <2>1 DEF Paired
      <3> QED BY <1>3, <1>8, <2>1, <3>1
    <2>2. CASE k = n + 1
      <3>1. i \in 1..m
        BY <1>2, <1>4, <2>2
      <3>2. /\ t[n + 1 + i].role = "tool" /\ t[n + 1 + i].answers = ids[i]
            /\ n + 1 + i \in 1..Len(t) /\ n + 1 + i > n + 1
        BY <1>5, <1>9, <3>1
      <3> QED BY <1>4, <2>2, <3>2
    <2>3. CASE \E l \in 1..m : k = n + 1 + l
      BY <1>5, <2>3
    <2> QED BY <1>7, <2>1, <2>2, <2>3
  <1>12. ASSUME NEW j \in 1..Len(t), t[j].role = "tool"
         PROVE  \/ j \in 1..n /\ s[j].role = "tool" /\ t[j].answers = s[j].answers
                   /\ s[j].answers[1] \in Nat /\ s[j].answers[1] < b
                \/ \E i \in 1..m : j = n + 1 + i /\ t[j].answers = ids[i]
    <2>1. CASE j \in 1..n
      BY <1>1, <1>3, <1>12, <2>1 DEF RoundsBefore
    <2>2. CASE j = n + 1
      BY <1>4, <1>12, <2>2
    <2>3. CASE \E i \in 1..m : j = n + 1 + i
      BY <1>5, <2>3
    <2> QED BY <1>7, <2>1, <2>2, <2>3
  <1>13. ASSUME NEW j \in 1..Len(t), NEW l \in 1..Len(t),
                t[j].role = "tool", t[l].role = "tool", t[j].answers = t[l].answers
         PROVE  j = l
    <2>1. CASE j \in 1..n /\ l \in 1..n
      BY <1>1, <1>3, <1>13, <2>1 DEF Paired
    <2>2. CASE /\ \E i \in 1..m : j = n + 1 + i /\ t[j].answers = ids[i]
               /\ \E i \in 1..m : l = n + 1 + i /\ t[l].answers = ids[i]
      BY <1>6, <1>13, <2>2
    <2>3. ~(b < b)
      OBVIOUS
    <2> QED BY <1>6, <1>12, <1>13, <2>1, <2>2, <2>3
  <1>14. ASSUME NEW j \in 1..Len(t), t[j].role = "tool"
         PROVE  \E k \in 1..(j - 1) : \E i \in DOMAIN t[k].calls : t[k].calls[i] = t[j].answers
    <2>1. CASE j \in 1..n
      <3>1. PICK k \in 1..(j - 1) : \E i \in DOMAIN s[k].calls : s[k].calls[i] = s[j].answers
        BY <1>1, <1>3, <1>14, <2>1 DEF Paired
      <3>2. k \in 1..n
        BY <2>1
      <3> QED BY <1>3, <2>1, <3>1, <3>2
    <2>2. ASSUME NEW i \in 1..m, j = n + 1 + i, t[j].answers = ids[i]
          PROVE  \E k \in 1..(j - 1) : \E l \in DOMAIN t[k].calls : t[k].calls[l] = t[j].answers
      <3>1. n + 1 \in 1..(j - 1)
        BY <2>2
      <3> QED BY <1>2, <1>4, <2>2, <3>1
    <2> QED BY <1>12, <1>14, <2>1, <2>2
  <1>15. ASSUME NEW k \in 1..Len(t)
         PROVE  /\ \A i \in DOMAIN t[k].calls : t[k].calls[i][1] \in Nat /\ t[k].calls[i][1] < b + 1
                /\ t[k].role = "tool" => t[k].answers[1] \in Nat /\ t[k].answers[1] < b + 1
    <2>1. \A x \in Nat : x < b => x < b + 1
      OBVIOUS
    <2>2. b < b + 1
      OBVIOUS
    <2>3. CASE k \in 1..n
      BY <1>1, <1>3, <2>1, <2>3 DEF RoundsBefore
    <2>4. CASE k = n + 1
      BY <1>2, <1>4, <1>6, <2>2, <2>4
    <2>5. ASSUME NEW i \in 1..m, k = n + 1 + i
          PROVE  /\ \A l \in DOMAIN t[k].calls :
                      t[k].calls[l][1] \in Nat /\ t[k].calls[l][1] < b + 1
                 /\ t[k].role = "tool" => t[k].answers[1] \in Nat /\ t[k].answers[1] < b + 1
      <3>1. DOMAIN t[k].calls = {} /\ t[k].answers = ids[i]
        BY <1>5, <2>5
      <3>2. ids[i][1] = b
        BY <1>6
      <3> QED BY <2>2, <3>1, <3>2
    <2> QED BY <1>7, <2>3, <2>4, <2>5
  <1> QED BY <1>2, <1>11, <1>13, <1>14, <1>15 DEF Paired, RoundsBefore

-----------------------------------------------------------------------------
(* The calls that are run, and their ids.                                  *)

LEMMA ParsedIs ==
  ASSUME NEW c, NEW n \in Nat, DOMAIN c = 1..n
  PROVE  /\ Parsed(c) \in Seq(1..n) /\ Once(Parsed(c))
         /\ Parsed(c) # <<>> <=> \E i \in 1..n : c[i].valid
  <1> DEFINE parts == [i \in 1..n |-> IF c[i].valid THEN <<i>> ELSE <<>>]
  <1>1. Parsed(c) = FlattenSeq(parts)
    BY DEF Parsed
  <1>2. ASSUME NEW i \in 1..n
        PROVE  /\ parts[i] \in Seq(1..n) /\ Once(parts[i])
               /\ \A x : x \in ToSet(parts[i]) <=> c[i].valid /\ x = i
    <2>1. <<i>> \in Seq(1..n) /\ Len(<<i>>) = 1 /\ <<i>>[1] = i
      OBVIOUS
    <2>2. Once(<<i>>) /\ \A x : x \in ToSet(<<i>>) <=> x = i
      BY <2>1 DEF Once, ToSet
    <2>3. CASE c[i].valid
      <3>1. parts[i] = <<i>>
        BY <2>3
      <3> HIDE DEF parts
      <3> QED BY <2>1, <2>2, <2>3, <3>1
    <2>4. CASE ~c[i].valid
      <3>1. parts[i] = <<>>
        BY <2>4
      <3>2. <<>> \in Seq(1..n)
        OBVIOUS
      <3> HIDE DEF parts
      <3> QED BY <2>4, <3>1, <3>2, EmptyOnce
    <2> QED BY <2>3, <2>4
  <1>3. parts \in Seq(Seq(1..n)) /\ Len(parts) = n
    <2>1. parts \in [1..n -> Seq(1..n)]
      BY <1>2
    <2> QED BY <2>1, IsASeq
  <1> HIDE DEF parts
  <1>4. \A i, j \in 1..Len(parts) : Once(parts[i]) /\ (i # j => Apart(parts[i], parts[j]))
    BY <1>2, <1>3 DEF Apart
  <1>5. FlattenSeq(parts) \in Seq(1..n) /\ Once(FlattenSeq(parts))
    BY <1>3, <1>4, FlattenType, FlattenElements
  <1>6. \A x : x \in ToSet(FlattenSeq(parts)) <=> \E i \in 1..n : c[i].valid /\ x = i
    <2>1. \A x : x \in ToSet(FlattenSeq(parts)) <=> \E i \in 1..Len(parts) : x \in ToSet(parts[i])
      BY <1>3, FlattenElements
    <2> QED BY <1>2, <1>3, <2>1
  <1>7. FlattenSeq(parts) # <<>> <=> \E x : x \in ToSet(FlattenSeq(parts))
    <2>1. PICK f : f = FlattenSeq(parts)
      OBVIOUS
    <2>2. f \in Seq(1..n)
      BY <1>5, <2>1
    <2>3. f # <<>> => f[1] \in ToSet(f)
      <3>1. f # <<>> => 1 \in 1..Len(f)
        BY <2>2
      <3> QED BY <2>2, <3>1, InToSet
    <2>4. f = <<>> => ToSet(f) = {}
      BY EmptyOnce
    <2> QED BY <2>1, <2>3, <2>4
  <1> QED BY <1>1, <1>5, <1>6, <1>7

LEMMA ParsedSame ==
  ASSUME NEW c, NEW d, NEW n \in Nat, DOMAIN c = 1..n, DOMAIN d = 1..n,
         \A i \in 1..n : c[i].valid = d[i].valid
  PROVE  Parsed(c) = Parsed(d)
  <1>1. [i \in DOMAIN c |-> IF c[i].valid THEN <<i>> ELSE <<>>]
        = [i \in DOMAIN d |-> IF d[i].valid THEN <<i>> ELSE <<>>]
    OBVIOUS
  <1> QED BY <1>1 DEF Parsed

LEMMA CallsRun ==
  ASSUME Answering, ChatAssumption, stage = "tools", NEW n \in Keeps
  PROVE  /\ n \in Nat \ {0} /\ n <= Len(built.calls) /\ round \in Nat
         /\ built.calls \in Seq(CallRow) /\ Len(built.calls) \in Nat
         /\ DOMAIN built.calls = 1..Len(built.calls)
         /\ adapter # "llama_index" => n = Len(built.calls)
  <1>1. built \in Says /\ round \in Nat
    BY DEF Answering, ChatType
  <1>2. built.calls \in Seq(CallRow) /\ built.calls # <<>>
    BY <1>1, AnswersAre DEF Answering, SpanRead
  <1>3. Len(built.calls) \in Nat \ {0} /\ DOMAIN built.calls = 1..Len(built.calls)
    BY <1>2
  <1>4. n \in {1, Len(built.calls)} /\ (adapter # "llama_index" => n = Len(built.calls))
    BY DEF Keeps, LlamaIndexKeeps
  <1> QED BY <1>1, <1>2, <1>3, <1>4

LEMMA RanIs ==
  ASSUME Answering, ChatAssumption, stage = "tools", NEW n \in Keeps
  PROVE  /\ Ran(n) \in Seq(1..n) /\ Once(Ran(n))
         /\ adapter = "langchain" /\ (\E i \in DOMAIN built.calls : built.calls[i].valid)
              => Ran(n) # <<>>
  <1>1. /\ n \in Nat \ {0} /\ DOMAIN built.calls = 1..Len(built.calls)
        /\ adapter # "llama_index" => n = Len(built.calls)
    BY CallsRun
  <1>2. CASE adapter = "langchain"
    <2>1. DOMAIN built.calls = 1..n
      BY <1>1, <1>2
    <2>2. /\ Parsed(built.calls) \in Seq(1..n) /\ Once(Parsed(built.calls))
          /\ Parsed(built.calls) # <<>> <=> \E i \in 1..n : built.calls[i].valid
      BY <1>1, <2>1, ParsedIs
    <2> QED BY <1>2, <2>1, <2>2 DEF Ran
  <1>3. CASE adapter # "langchain"
    <2>1. Ran(n) = [i \in 1..n |-> i]
      BY <1>3 DEF Ran
    <2>2. Ran(n) \in Seq(1..n) /\ Len(Ran(n)) = n
      BY <1>1, <2>1
    <2> QED BY <1>3, <2>1, <2>2 DEF Once
  <1> QED BY <1>2, <1>3

\* The ids of the calls are those the provider gave, and new.
LEMMA IdsAre ==
  ASSUME Answering, ChatAssumption, stage = "tools", NEW n \in Keeps, NEW i \in 1..n
  PROVE  /\ Id(round, i, built.calls[i].ids) \in CallId /\ AnswerId(i) \in CallId
         /\ style # "noids" =>
              /\ AnswerId(i) = Id(round, i, built.calls[i].ids)
              /\ AnswerId(i) # NoId /\ AnswerId(i)[1] = round /\ AnswerId(i)[2] = i
  <1>1. /\ n \in Nat \ {0} /\ n <= Len(built.calls) /\ round \in Nat
        /\ built.calls \in Seq(CallRow) /\ Len(built.calls) \in Nat
    BY CallsRun
  <1>2. i \in 1..Len(built.calls) /\ i \in Nat \ {0}
    BY <1>1
  <1>3. PICK k : k = built.calls[i].ids
    OBVIOUS
  <1>4. k \in Nat
    <2>1. built.calls[i] \in CallRow
      BY <1>1, <1>2
    <2> QED BY <1>3, <2>1 DEF CallRow
  <1>5. \A m \in Nat : Id(round, i, m) \in CallId
    BY <1>1, <1>2 DEF Id, NoId, CallId
  <1>6. AnswerId(i) \in {Id(round, i, k), Id(round, i, Generated)}
        /\ (k # 0 => AnswerId(i) = Id(round, i, k))
    BY <1>3 DEF AnswerId, SelectedId
  <1>7. Generated \in Nat
    BY DEF Generated
  <1>8. style # "noids" => k # 0
    BY <1>2, <1>3 DEF Answering, CallsInOrder, HasIds
  <1>9. k # 0 => /\ Id(round, i, k) = <<round, i, k>>
                 /\ Id(round, i, k) # NoId
    BY <1>2 DEF Id, NoId
  <1>10. k # 0 => Id(round, i, k)[1] = round /\ Id(round, i, k)[2] = i
    BY <1>9
  <1> QED BY <1>3, <1>4, <1>5, <1>6, <1>7, <1>8, <1>9, <1>10

LEMMA RanIdsAre ==
  ASSUME Answering, ChatAssumption, stage = "tools", NEW n \in Keeps
  PROVE  /\ RanIds(n) \in Seq(CallId) /\ Len(RanIds(n)) = Len(Ran(n))
         /\ style # "noids" => TurnIds(RanIds(n), round)
         /\ style # "noids" /\ adapter = "langchain"
              /\ (\E i \in DOMAIN built.calls : built.calls[i].valid) => RanIds(n) # <<>>
  <1>1. PICK r : r = Ran(n)
    OBVIOUS
  <1>2. r \in Seq(1..n) /\ Once(r) /\ n \in Nat
    BY <1>1, RanIs, CallsRun
  <1>3. Len(r) \in Nat /\ DOMAIN r = 1..Len(r) /\ \A i \in 1..Len(r) : r[i] \in 1..n
    BY <1>2
  <1>4. RanIds(n) = [i \in 1..Len(r) |-> AnswerId(r[i])]
    BY <1>1, <1>3 DEF RanIds
  <1>5. \A i \in 1..n : AnswerId(i) \in CallId
    BY IdsAre
  <1>6. RanIds(n) \in Seq(CallId) /\ Len(RanIds(n)) = Len(r)
    <2>1. RanIds(n) \in [1..Len(r) -> CallId]
      BY <1>3, <1>4, <1>5
    <2> QED BY <1>3, <2>1, IsASeq
  <1>7. ASSUME style # "noids" PROVE TurnIds(RanIds(n), round)
    <2>1. \A i \in 1..n : AnswerId(i)[1] = round /\ AnswerId(i)[2] = i
      BY <1>7, IdsAre
    <2>2. Listed(RanIds(n))
      BY <1>6 DEF Listed
    <2>3. \A i \in 1..Len(r) : RanIds(n)[i] = AnswerId(r[i])
      BY <1>4
    <2>4. \A i \in 1..Len(r) : RanIds(n)[i][1] = round /\ RanIds(n)[i][2] = r[i]
      BY <1>3, <2>1, <2>3
    <2>5. \A i, j \in 1..Len(r) : RanIds(n)[i] = RanIds(n)[j] => i = j
      BY <1>2, <2>4 DEF Once
    <2> QED BY <1>6, <2>2, <2>4, <2>5 DEF TurnIds
  <1>8. adapter = "langchain" /\ (\E i \in DOMAIN built.calls : built.calls[i].valid)
          => RanIds(n) # <<>>
    <2>1. r # <<>> => Len(r) # 0
      BY <1>2
    <2>2. RanIds(n) = <<>> => Len(RanIds(n)) = 0
      OBVIOUS
    <2> QED BY <1>1, <1>6, <2>1, <2>2, RanIs
  <1> QED BY <1>1, <1>6, <1>7, <1>8

-----------------------------------------------------------------------------
(* The history, as it grows and as the provider reads it.                  *)

OneByOneAdapters == {"agno", "langchain", "llama_index", "openai", "smolagents"}

LEMMA OneByOne ==
  ASSUME adapter \in OneByOneAdapters, NEW h \in Seq(HeldRow)
  PROVE  /\ Listed(Messages(h)) /\ Len(Messages(h)) = Len(h)
         /\ \A k \in 1..Len(h) : Messages(h)[k] = OneMessage(h[k])
  <1>1. Messages(h) = [k \in DOMAIN h |-> OneMessage(h[k])]
    BY DEF OneByOneAdapters, Messages, AgnoMessages, LangchainMessages, LlamaIndexMessages,
           OpenAIMessages, SmolagentsMessages, OneMessage
  <1>2. PICK n \in Nat : n = Len(h) /\ DOMAIN h = 1..n
    OBVIOUS
  <1> HIDE DEF OneMessage
  <1>3. Messages(h) = [k \in 1..n |-> OneMessage(h[k])]
    BY <1>1, <1>2
  <1>4. Len(Messages(h)) = n /\ DOMAIN Messages(h) = 1..n
    BY <1>3
  <1> QED BY <1>2, <1>3, <1>4 DEF Listed

LEMMA SameMessages ==
  ASSUME adapter' = adapter
  PROVE  Messages(history)' = Messages(history')
  BY DEF Messages, AgnoMessages, GoogleMessages, LangchainMessages, LlamaIndexMessages,
         OpenAIMessages, SmolagentsMessages

LEMMA ToolMessage ==
  ASSUME NEW x
  PROVE  LET m == OneMessage(Held("tool", <<>>, <<x>>))
         IN  adapter \in OneByOneAdapters \ {"smolagents"} =>
               m.role = "tool" /\ DOMAIN m.calls = {} /\ m.answers = x
  <1> DEFINE h == Held("tool", <<>>, <<x>>)
  <1>1. h.role = "tool" /\ h.calls = <<>> /\ h.answers = <<x>>
    BY DEF Held
  <1>2. DOMAIN h.calls = {} /\ DOMAIN IdsOf(h.calls) = {}
    BY <1>1 DEF IdsOf
  <1>3. Answered(h) = x
    <2>1. <<x>> # <<>> /\ <<x>>[1] = x
      OBVIOUS
    <2> QED BY <1>1, <2>1 DEF Answered
  <1>4. Parsed(h.calls) = <<>>
    <2>1. [i \in DOMAIN h.calls |-> IF h.calls[i].valid THEN <<i>> ELSE <<>>] = <<>>
      BY <1>2
    <2> QED BY <2>1, FlattenEmpty DEF Parsed
  <1> HIDE DEF h
  <1>5. ASSUME adapter \in OneByOneAdapters \ {"smolagents"}
        PROVE  /\ OneMessage(h).role = "tool" /\ DOMAIN OneMessage(h).calls = {}
               /\ OneMessage(h).answers = x
    BY <1>5, <1>1, <1>2, <1>3, <1>4 DEF OneMessage, Message, OneByOneAdapters
  <1> QED BY <1>5 DEF h

LEMMA CallsMessage ==
  ASSUME Answering, ChatAssumption, stage = "tools", NEW n \in Keeps, style # "noids",
         adapter \in OneByOneAdapters \ {"smolagents"},
         adapter = "langchain" => \E i \in DOMAIN built.calls : built.calls[i].valid
  PROVE  LET m == OneMessage(Held("assistant", MadeCalls(n), <<>>))
         IN  m.role = "assistant" /\ m.calls = RanIds(n)
  <1> DEFINE h == Held("assistant", MadeCalls(n), <<>>)
  <1>1. h.role = "assistant" /\ h.calls = MadeCalls(n)
    BY DEF Held
  <1>2. n \in Nat \ {0} /\ DOMAIN MadeCalls(n) = 1..n
    BY CallsRun DEF MadeCalls
  <1>3. \A i \in 1..n : MadeCalls(n)[i].id = AnswerId(i) /\ AnswerId(i) # NoId
    BY IdsAre DEF MadeCalls
  <1>4. IdsOf(MadeCalls(n)) = [i \in 1..n |-> AnswerId(i)]
    BY <1>2, <1>3 DEF IdsOf
  <1> HIDE DEF h
  <1>5. CASE adapter = "langchain"
    <2>1. n = Len(built.calls) /\ DOMAIN built.calls = 1..n
      BY <1>5, CallsRun
    <2>2. \A i \in 1..n : MadeCalls(n)[i].valid = built.calls[i].valid
      BY DEF MadeCalls
    <2>3. Parsed(MadeCalls(n)) = Ran(n)
      BY <1>2, <1>5, <2>1, <2>2, ParsedSame DEF Ran
    <2>4. Ran(n) # <<>> /\ Ran(n) \in Seq(1..n)
      BY <1>5, RanIs
    <2>5. \A i \in DOMAIN Ran(n) : Ran(n)[i] \in 1..n
      <3>1. PICK r : r = Ran(n)
        OBVIOUS
      <3>2. r \in Seq(1..n)
        BY <2>4, <3>1
      <3>3. \A i \in DOMAIN r : r[i] \in 1..n
        <4>1. DOMAIN r = 1..Len(r) /\ \A i \in 1..Len(r) : r[i] \in 1..n
          BY <1>2, <3>2
        <4> QED BY <4>1
      <3> QED BY <3>1, <3>3
    <2>6. RanIds(n) = [i \in DOMAIN Ran(n) |-> IdsOf(MadeCalls(n))[Ran(n)[i]]]
      BY <1>4, <2>5 DEF RanIds
    <2>7. OneMessage(h) = Message(h.role, [i \in DOMAIN Parsed(h.calls) |->
                                             IdsOf(h.calls)[Parsed(h.calls)[i]]], Answered(h))
      BY <1>1, <1>5, <2>3, <2>4 DEF OneMessage
    <2>8. OneMessage(h) = Message("assistant", RanIds(n), Answered(h))
      BY <1>1, <2>3, <2>6, <2>7
    <2> QED BY <2>8 DEF Message, h
  <1>6. CASE adapter # "langchain"
    <2>1. RanIds(n) = [i \in 1..n |-> AnswerId(i)]
      BY <1>6 DEF RanIds, Ran
    <2>2. CASE adapter = "agno"
      <3>1. OneMessage(h) =
              Message(h.role, [i \in DOMAIN h.calls |->
                                 IF h.calls[i].id = NoId THEN <<0, i, 1>> ELSE h.calls[i].id],
                      Answered(h))
        BY <2>2 DEF OneMessage
      <3>2. [i \in DOMAIN MadeCalls(n) |->
               IF MadeCalls(n)[i].id = NoId THEN <<0, i, 1>> ELSE MadeCalls(n)[i].id] = RanIds(n)
        BY <1>2, <1>3, <2>1
      <3>3. OneMessage(h) = Message("assistant", RanIds(n), Answered(h))
        BY <1>1, <3>1, <3>2
      <3> QED BY <3>3 DEF Message, h
    <2>3. CASE adapter \in {"llama_index", "openai"}
      <3>1. OneMessage(h) = Message("assistant", RanIds(n), Answered(h))
        BY <1>1, <1>4, <2>1, <2>3 DEF OneMessage
      <3> QED BY <3>1 DEF Message, h
    <2> QED BY <1>6, <2>2, <2>3 DEF OneByOneAdapters
  <1> QED BY <1>5, <1>6

LEMMA RowsJoined ==
  ASSUME NEW R, NEW s \in Seq(R), NEW x \in R, NEW rs \in Seq(R), NEW t, t = Append(s, x) \o rs
  PROVE  /\ t \in Seq(R) /\ Len(t) = Len(s) + 1 + Len(rs) /\ Len(s) \in Nat /\ Len(rs) \in Nat
         /\ \A k \in 1..Len(s) : t[k] = s[k]
         /\ t[Len(s) + 1] = x
         /\ \A i \in 1..Len(rs) : t[Len(s) + 1 + i] = rs[i]
  <1>1. PICK u : u = Append(s, x)
    OBVIOUS
  <1>2. /\ u \in Seq(R) /\ Len(u) = Len(s) + 1 /\ u[Len(s) + 1] = x
        /\ \A k \in 1..Len(s) : u[k] = s[k]
    BY <1>1, RowAdded
  <1>3. PICK n, m \in Nat : n = Len(s) /\ m = Len(rs)
    OBVIOUS
  <1>4. /\ t \in Seq(R) /\ Len(t) = n + 1 + m
        /\ \A k \in 1..(n + 1 + m) : t[k] = IF k <= n + 1 THEN u[k] ELSE rs[k - (n + 1)]
    <2>1. t = u \o rs
      BY <1>1
    <2>2. /\ u \o rs \in Seq(R) /\ Len(u \o rs) = Len(u) + Len(rs)
          /\ \A k \in 1..(Len(u) + Len(rs)) :
               (u \o rs)[k] = IF k <= Len(u) THEN u[k] ELSE rs[k - Len(u)]
      BY <1>2, ConcatProperties
    <2> QED BY <1>2, <1>3, <2>1, <2>2
  <1>5. \A k \in 1..n : t[k] = s[k]
    BY <1>2, <1>3, <1>4
  <1>6. t[n + 1] = x
    BY <1>2, <1>3, <1>4
  <1>7. \A i \in 1..m : t[n + 1 + i] = rs[i]
    BY <1>4
  <1> QED BY <1>3, <1>4, <1>5, <1>6, <1>7

LEMMA MadeIs ==
  ASSUME Answering, ChatAssumption, stage = "tools", NEW n \in Keeps
  PROVE  /\ MadeCalls(n) \in Seq(HeldCall) /\ MadeCalls(n) # <<>>
         /\ Held("assistant", MadeCalls(n), <<>>) \in HeldRow
  <1>1. /\ n \in Nat \ {0} /\ n <= Len(built.calls)
        /\ built.calls \in Seq(CallRow) /\ Len(built.calls) \in Nat
    BY CallsRun
  <1>2. \A i \in 1..n : Id(round, i, built.calls[i].ids) \in CallId
    BY IdsAre
  <1>3. \A i \in 1..n : built.calls[i].valid \in BOOLEAN
    <2>1. \A i \in 1..n : built.calls[i] \in CallRow
      BY <1>1
    <2> QED BY <2>1 DEF CallRow
  <1>4. MadeCalls(n) \in [1..n -> HeldCall]
    BY <1>2, <1>3 DEF MadeCalls, HeldCall
  <1>5. MadeCalls(n) \in Seq(HeldCall) /\ MadeCalls(n) # <<>>
    <2>1. PICK c : c = MadeCalls(n)
      OBVIOUS
    <2>2. c \in Seq(HeldCall) /\ Len(c) = n
      BY <1>1, <1>4, <2>1, IsASeq
    <2>3. c # <<>>
      BY <1>1, <2>2
    <2> QED BY <2>1, <2>2, <2>3
  <1>6. <<>> \in Seq(CallId)
    OBVIOUS
  <1> QED BY <1>5, <1>6 DEF Held, HeldRow

LEMMA ToolRow == ASSUME NEW x \in CallId PROVE Held("tool", <<>>, <<x>>) \in HeldRow
  <1>1. <<>> \in Seq(HeldCall) /\ <<x>> \in Seq(CallId)
    OBVIOUS
  <1> QED BY <1>1 DEF Held, HeldRow

LEMMA UserRow == ASSUME NEW s \in Seq(CallId) PROVE Held("user", <<>>, s) \in HeldRow
  <1>1. <<>> \in Seq(HeldCall)
    OBVIOUS
  <1> QED BY <1>1 DEF Held, HeldRow

LEMMA ResultsAre ==
  ASSUME Answering, ChatAssumption, stage = "tools", NEW n \in Keeps
  PROVE  /\ Results(n) \in Seq(HeldRow)
         /\ adapter = "google" => Results(n) = <<Held("user", <<>>, RanIds(n))>>
         /\ adapter # "google" =>
              /\ Len(Results(n)) = Len(RanIds(n))
              /\ \A i \in 1..Len(RanIds(n)) :
                   Results(n)[i] = Held("tool", <<>>, <<RanIds(n)[i]>>)
  <1>1. PICK ids : ids = RanIds(n)
    OBVIOUS
  <1>2. ids \in Seq(CallId)
    BY <1>1, RanIdsAre
  <1>3. Len(ids) \in Nat /\ DOMAIN ids = 1..Len(ids) /\ \A i \in 1..Len(ids) : ids[i] \in CallId
    BY <1>2
  <1>4. Results(n) = IF adapter = "google" THEN <<Held("user", <<>>, ids)>>
                     ELSE [i \in DOMAIN ids |-> Held("tool", <<>>, <<ids[i]>>)]
    BY <1>1, Zenon DEF Results, RanIds, Ran
  <1>5. CASE adapter = "google"
    <2>1. Held("user", <<>>, ids) \in HeldRow
      BY <1>2, UserRow
    <2> QED BY <1>1, <1>4, <1>5, <2>1
  <1>6. CASE adapter # "google"
    <2>1. \A i \in 1..Len(ids) : Held("tool", <<>>, <<ids[i]>>) \in HeldRow
      BY <1>3, ToolRow
    <2>2. Results(n) = [i \in 1..Len(ids) |-> Held("tool", <<>>, <<ids[i]>>)]
      BY <1>3, <1>4, <1>6
    <2>3. Results(n) \in Seq(HeldRow) /\ Len(Results(n)) = Len(ids)
      <3>1. Results(n) \in [1..Len(ids) -> HeldRow]
        BY <2>1, <2>2
      <3> QED BY <1>3, <3>1, IsASeq
    <2> QED BY <1>1, <1>6, <2>2, <2>3
  <1> QED BY <1>5, <1>6

LEMMA RunAnswering ==
  ASSUME Answering, ChatAssumption, RunTools
  PROVE  Answering' /\ stage' \in {"request", "end"}
  <1>1. /\ stage = "tools" /\ stage' \in {"request", "end"}
        /\ UNCHANGED <<adapter, style, mode, round, said, built, told>>
    BY DEF RunTools
  <1>2. PICK n \in Keeps :
          history' = Append(history, Held("assistant", MadeCalls(n), <<>>)) \o Results(n)
    BY DEF RunTools, MadeCalls
  <1>3. history' \in Seq(HeldRow)
    <2>1. PICK x, rs : x = Held("assistant", MadeCalls(n), <<>>) /\ rs = Results(n)
      OBVIOUS
    <2>2. x \in HeldRow /\ rs \in Seq(HeldRow) /\ history \in Seq(HeldRow)
      BY <1>1, <2>1, MadeIs, ResultsAre DEF Answering, ChatType
    <2> QED BY <1>2, <2>1, <2>2, RowsJoined
  <1>4. ChatType'
    BY <1>1, <1>3 DEF Answering, ChatType
  <1>5. Follows' /\ CallsInOrder'
    <2>1. /\ HasIds(said.calls)' <=> HasIds(said.calls)
          /\ HasIds(built.calls)' <=> HasIds(built.calls)
      BY <1>1 DEF HasIds
    <2> QED BY <1>1, <2>1 DEF Answering, Follows, CallsInOrder
  <1>6. SpanRead' /\ StreamsFail'
    <2>1. SpanOf(built)' = SpanOf(built) /\ (Wrapped' <=> Wrapped)
      BY <1>1 DEF SpanOf, AgnoSpan, GoogleSpan, LangchainSpan, LlamaIndexSpan, OpenAISpan,
                  SmolagentsSpan, Wrapped
    <2> QED BY <1>1, <2>1 DEF Answering, SpanRead, StreamsFail
  <1>7. ProperAnswersPass'
    BY <1>1 DEF Answering, ProperAnswersPass
  <1> QED BY <1>1, <1>4, <1>5, <1>6, <1>7 DEF Answering

\* Adapters that turn messages one by one send a turn for a turn.
LEMMA OneByOneTurn ==
  ASSUME Answering, ChatAssumption, stage = "tools", NEW n \in Keeps, style # "noids",
         adapter \in OneByOneAdapters \ {"smolagents"},
         adapter = "langchain" => \E i \in DOMAIN built.calls : built.calls[i].valid,
         NEW g, g = Append(history, Held("assistant", MadeCalls(n), <<>>)) \o Results(n)
  PROVE  TurnAdded(Messages(history), Messages(g), RanIds(n))
  <1>1. PICK x, rs, ids :
          x = Held("assistant", MadeCalls(n), <<>>) /\ rs = Results(n) /\ ids = RanIds(n)
    OBVIOUS
  <1>2. x \in HeldRow /\ rs \in Seq(HeldRow) /\ history \in Seq(HeldRow)
    BY <1>1, MadeIs, ResultsAre DEF Answering, ChatType
  <1>3. adapter # "google" /\ adapter \in OneByOneAdapters
    BY DEF OneByOneAdapters
  <1>4. Len(rs) = Len(ids) /\ \A i \in 1..Len(ids) : rs[i] = Held("tool", <<>>, <<ids[i]>>)
    BY <1>1, <1>3, ResultsAre
  <1>5. PICK p, m \in Nat : p = Len(history) /\ m = Len(rs)
    BY <1>2
  <1>6. /\ g \in Seq(HeldRow) /\ Len(g) = p + 1 + m
        /\ \A k \in 1..p : g[k] = history[k]
        /\ g[p + 1] = x /\ \A i \in 1..m : g[p + 1 + i] = rs[i]
    BY <1>1, <1>2, <1>5, RowsJoined
  <1>7. PICK s, t : s = Messages(history) /\ t = Messages(g)
    OBVIOUS
  <1>8. Len(s) = p /\ \A k \in 1..p : s[k] = OneMessage(history[k])
    BY <1>2, <1>3, <1>5, <1>7, OneByOne
  <1>9. /\ Listed(t) /\ Len(t) = p + 1 + m
        /\ \A k \in 1..(p + 1 + m) : t[k] = OneMessage(g[k])
    BY <1>3, <1>6, <1>7, OneByOne
  <1>10. \A k \in 1..p : t[k] = s[k]
    <2>1. \A k \in 1..p : k \in 1..(p + 1 + m)
      BY <1>5
    <2>2. \A k \in 1..p : t[k] = OneMessage(g[k])
      BY <1>9, <2>1
    <2>3. \A k \in 1..p : g[k] = history[k]
      BY <1>6
    <2>4. \A k \in 1..p : s[k] = OneMessage(history[k])
      BY <1>8
    <2> QED BY <2>2, <2>3, <2>4, Zenon
  <1>11. t[p + 1].role = "assistant" /\ t[p + 1].calls = ids
    <2>1. t[p + 1] = OneMessage(x)
      <3>1. p + 1 \in 1..(p + 1 + m)
        BY <1>5
      <3> QED BY <1>6, <1>9, <3>1
    <2> QED BY <1>1, <2>1, CallsMessage
  <1>12. ASSUME NEW i \in 1..m
         PROVE  /\ t[p + 1 + i].role = "tool" /\ DOMAIN t[p + 1 + i].calls = {}
                /\ t[p + 1 + i].answers = ids[i]
    <2>1. t[p + 1 + i] = OneMessage(g[p + 1 + i])
      <3>1. p + 1 + i \in 1..(p + 1 + m)
        BY <1>5
      <3> QED BY <1>9, <3>1
    <2>2. t[p + 1 + i] = OneMessage(Held("tool", <<>>, <<ids[i]>>))
      BY <1>4, <1>5, <1>6, <2>1
    <2> QED BY <2>2, ToolMessage
  <1>13. TurnAdded(s, t, ids)
    BY <1>4, <1>5, <1>8, <1>9, <1>10, <1>11, <1>12 DEF TurnAdded
  <1> QED BY <1>1, <1>7, <1>13

\* Google's parts are joined, and a turn is two contents.
LEMMA GooglePartIs ==
  ASSUME NEW m \in HeldRow
  PROVE  GooglePart(m) \in Seq(MessageRow)
  <1>1. /\ DOMAIN m.answers = 1..Len(m.answers) /\ Len(m.answers) \in Nat
        /\ \A i \in 1..Len(m.answers) : m.answers[i] \in CallId
    <2>1. PICK s : s = m.answers
      OBVIOUS
    <2>2. s \in Seq(CallId)
      BY <2>1 DEF HeldRow
    <2> QED BY <2>1, <2>2
  <1>2. \A x \in CallId : Message("tool", <<>>, x) \in MessageRow
    <2>1. <<>> \in Seq(CallId)
      OBVIOUS
    <2> QED BY <2>1 DEF Message, MessageRow
  <1>3. [i \in DOMAIN m.answers |-> Message("tool", <<>>, m.answers[i])] \in Seq(MessageRow)
    <2>1. [i \in 1..Len(m.answers) |-> Message("tool", <<>>, m.answers[i])]
            \in [1..Len(m.answers) -> MessageRow]
      BY <1>1, <1>2
    <2> QED BY <1>1, <2>1, IsASeq
  <1>4. Message("assistant", IdsOf(m.calls), <<>>) \in MessageRow
    <2>1. PICK c : c = m.calls
      OBVIOUS
    <2>2. c \in Seq(HeldCall)
      BY <2>1 DEF HeldRow
    <2>3. Len(c) \in Nat /\ DOMAIN c = 1..Len(c) /\ \A i \in 1..Len(c) : c[i].id \in CallId
      <3>1. Len(c) \in Nat /\ DOMAIN c = 1..Len(c) /\ \A i \in 1..Len(c) : c[i] \in HeldCall
        BY <2>2
      <3> QED BY <3>1 DEF HeldCall
    <2>4. IdsOf(c) \in [1..Len(c) -> CallId]
      BY <2>3 DEF IdsOf
    <2>5. IdsOf(c) \in Seq(CallId)
      BY <2>3, <2>4, IsASeq
    <2> QED BY <2>1, <2>5 DEF Message, MessageRow
  <1>5. PICK a, b : /\ a = [i \in DOMAIN m.answers |-> Message("tool", <<>>, m.answers[i])]
                    /\ b = IF m.calls = <<>> THEN <<>>
                           ELSE <<Message("assistant", IdsOf(m.calls), <<>>)>>
    OBVIOUS
  <1>6. a \in Seq(MessageRow) /\ b \in Seq(MessageRow)
    BY <1>3, <1>4, <1>5
  <1>7. GooglePart(m) = a \o b
    BY <1>5 DEF GooglePart
  <1> QED BY <1>6, <1>7, ConcatProperties

LEMMA GooglePartsAre ==
  ASSUME NEW h \in Seq(HeldRow), NEW ps, ps = [k \in DOMAIN h |-> GooglePart(h[k])]
  PROVE  ps \in Seq(Seq(MessageRow)) /\ Len(ps) = Len(h) /\ GoogleMessages(h) = FlattenSeq(ps)
         /\ \A k \in 1..Len(h) : ps[k] = GooglePart(h[k])
  <1>1. Len(h) \in Nat /\ DOMAIN h = 1..Len(h) /\ \A k \in 1..Len(h) : h[k] \in HeldRow
    OBVIOUS
  <1>2. ps \in [1..Len(h) -> Seq(MessageRow)]
    BY <1>1, GooglePartIs
  <1>3. GoogleMessages(h) = FlattenSeq(ps)
    BY Zenon DEF GoogleMessages, GooglePart
  <1> QED BY <1>1, <1>2, <1>3, IsASeq

LEMMA PartAdded ==
  ASSUME NEW h \in Seq(HeldRow), NEW x \in HeldRow
  PROVE  GoogleMessages(Append(h, x)) = GoogleMessages(h) \o GooglePart(x)
  <1>1. PICK g : g = Append(h, x)
    OBVIOUS
  <1>2. /\ g \in Seq(HeldRow) /\ Len(g) = Len(h) + 1 /\ g[Len(h) + 1] = x
        /\ \A k \in 1..Len(h) : g[k] = h[k]
    BY <1>1, RowAdded
  <1>3. PICK ps, qs : /\ ps = [k \in DOMAIN h |-> GooglePart(h[k])]
                      /\ qs = [k \in DOMAIN g |-> GooglePart(g[k])]
    OBVIOUS
  <1>4. /\ ps \in Seq(Seq(MessageRow)) /\ Len(ps) = Len(h) /\ GoogleMessages(h) = FlattenSeq(ps)
        /\ \A k \in 1..Len(h) : ps[k] = GooglePart(h[k])
    BY <1>3, GooglePartsAre
  <1>5. /\ qs \in Seq(Seq(MessageRow)) /\ Len(qs) = Len(g) /\ GoogleMessages(g) = FlattenSeq(qs)
        /\ \A k \in 1..Len(g) : qs[k] = GooglePart(g[k])
    BY <1>2, <1>3, GooglePartsAre
  <1>6. PICK y : y = GooglePart(x)
    OBVIOUS
  <1>7. y \in Seq(MessageRow)
    BY <1>6, GooglePartIs
  <1>8. PICK rs : rs = Append(ps, y)
    OBVIOUS
  <1>9. /\ rs \in Seq(Seq(MessageRow)) /\ Len(rs) = Len(h) + 1 /\ rs[Len(h) + 1] = y
        /\ \A k \in 1..Len(h) : rs[k] = ps[k]
    BY <1>4, <1>7, <1>8, RowAdded
  <1>10. \A k \in 1..(Len(h) + 1) : rs[k] = qs[k]
    <2>1. Len(h) \in Nat
      OBVIOUS
    <2>2. \A k \in 1..(Len(h) + 1) : k \in 1..Len(h) \/ k = Len(h) + 1
      BY <2>1
    <2>3. \A k \in 1..(Len(h) + 1) : qs[k] = GooglePart(g[k])
      BY <1>2, <1>5
    <2> QED BY <1>2, <1>4, <1>6, <1>9, <2>2, <2>3
  <1>11. rs = qs
    BY <1>2, <1>5, <1>9, <1>10, SeqEqual
  <1>12. FlattenSeq(rs) = FlattenSeq(ps) \o y
    BY <1>4, <1>7, <1>8, FlattenAppend
  <1> QED BY <1>1, <1>4, <1>5, <1>6, <1>11, <1>12

LEMMA GoogleTurn ==
  ASSUME Answering, ChatAssumption, stage = "tools", NEW n \in Keeps, style # "noids",
         adapter = "google",
         NEW g, g = Append(history, Held("assistant", MadeCalls(n), <<>>)) \o Results(n)
  PROVE  TurnAdded(Messages(history), Messages(g), RanIds(n))
  <1>1. PICK x, u, ids :
          x = Held("assistant", MadeCalls(n), <<>>) /\ u = Held("user", <<>>, ids) /\ ids = RanIds(n)
    OBVIOUS
  <1>2. ids \in Seq(CallId)
    BY <1>1, RanIdsAre
  <1>3. x \in HeldRow /\ u \in HeldRow /\ history \in Seq(HeldRow)
    BY <1>1, <1>2, MadeIs, UserRow DEF Answering, ChatType
  <1>4. g = Append(Append(history, x), u)
    <2>1. Results(n) = <<u>>
      BY <1>1, ResultsAre
    <2>2. PICK h : h = Append(history, x)
      OBVIOUS
    <2>3. h \in Seq(HeldRow) /\ g = h \o <<u>>
      BY <1>1, <1>3, <2>1, <2>2, RowAdded
    <2>4. h \o <<u>> = Append(h, u)
      BY <1>3, <2>3
    <2> QED BY <2>2, <2>3, <2>4
  <1>5. PICK s, a, b : s = GoogleMessages(history) /\ a = GooglePart(x) /\ b = GooglePart(u)
    OBVIOUS
  <1>6. GoogleMessages(g) = (s \o a) \o b
    <2>1. PICK h : h = Append(history, x)
      OBVIOUS
    <2>2. h \in Seq(HeldRow)
      BY <1>3, <2>1, RowAdded
    <2>3. GoogleMessages(h) = s \o a
      BY <1>3, <1>5, <2>1, PartAdded
    <2>4. GoogleMessages(Append(h, u)) = GoogleMessages(h) \o b
      BY <1>3, <1>5, <2>2, PartAdded
    <2> QED BY <1>4, <2>1, <2>3, <2>4
  <1>7. s \in Seq(MessageRow)
    <2>1. PICK ps : ps = [k \in DOMAIN history |-> GooglePart(history[k])]
      OBVIOUS
    <2>2. ps \in Seq(Seq(MessageRow)) /\ s = FlattenSeq(ps)
      BY <1>3, <1>5, <2>1, GooglePartsAre
    <2> QED BY <2>2, FlattenType
  <1>8. PICK p, m \in Nat : p = Len(s) /\ m = Len(ids)
    BY <1>2, <1>7
  <1>9. PICK y \in MessageRow : a = <<y>> /\ y.role = "assistant" /\ y.calls = ids
    <2>1. x.answers = <<>> /\ x.calls = MadeCalls(n)
      BY <1>1 DEF Held
    <2>2. MadeCalls(n) # <<>>
      BY MadeIs
    <2>3. IdsOf(MadeCalls(n)) = ids
      <3>1. DOMAIN MadeCalls(n) = 1..n /\ \A i \in 1..n : MadeCalls(n)[i].id = AnswerId(i)
        BY IdsAre DEF MadeCalls
      <3>2. ids = [i \in 1..n |-> AnswerId(i)]
        BY <1>1 DEF RanIds, Ran
      <3> QED BY <3>1, <3>2 DEF IdsOf
    <2>4. PICK y : y = Message("assistant", ids, <<>>)
      OBVIOUS
    <2>5. y \in MessageRow /\ y.role = "assistant" /\ y.calls = ids
      BY <1>2, <2>4 DEF Message, MessageRow
    <2>6. a = <<>> \o <<y>>
      <3>1. [i \in DOMAIN x.answers |-> Message("tool", <<>>, x.answers[i])] = <<>>
        BY <2>1
      <3>2. x.calls # <<>> /\ Message("assistant", IdsOf(x.calls), <<>>) = y
        BY <2>1, <2>2, <2>3, <2>4
      <3> QED BY <1>5, <3>1, <3>2, Zenon DEF GooglePart
    <2>7. <<>> \o <<y>> = <<y>>
      OBVIOUS
    <2> QED BY <2>5, <2>6, <2>7
  <1>10. /\ b \in Seq(MessageRow) /\ Len(b) = m
         /\ \A i \in 1..m : b[i].role = "tool" /\ DOMAIN b[i].calls = {} /\ b[i].answers = ids[i]
    <2>1. u.answers = ids /\ u.calls = <<>>
      BY <1>1 DEF Held
    <2>2. PICK c : c = [i \in DOMAIN ids |-> Message("tool", <<>>, ids[i])]
      OBVIOUS
    <2>3. b = c \o <<>>
      BY <1>5, <2>1, <2>2, Zenon DEF GooglePart
    <2>4. DOMAIN ids = 1..m /\ \A i \in 1..m : ids[i] \in CallId
      BY <1>2, <1>8
    <2>5. \A i \in 1..m : Message("tool", <<>>, ids[i]) \in MessageRow
      <3>1. <<>> \in Seq(CallId)
        OBVIOUS
      <3> QED BY <2>4, <3>1 DEF Message, MessageRow
    <2>6. c \in Seq(MessageRow) /\ Len(c) = m
      <3>1. c \in [1..m -> MessageRow]
        BY <2>2, <2>4, <2>5
      <3>2. m \in Nat
        BY <1>8
      <3> QED BY <3>1, <3>2, IsASeq
    <2>7. b = c
      BY <2>3, <2>6
    <2>8. \A i \in 1..m : c[i] = Message("tool", <<>>, ids[i])
      BY <2>2, <2>4
    <2>9. \A i \in 1..m : c[i].role = "tool" /\ DOMAIN c[i].calls = {} /\ c[i].answers = ids[i]
      <3>1. DOMAIN <<>> = {}
        OBVIOUS
      <3>2. \A i \in 1..m : c[i].role = "tool" /\ c[i].calls = <<>> /\ c[i].answers = ids[i]
        <4>1. \A v : LET r == Message("tool", <<>>, v)
                     IN  r.role = "tool" /\ r.calls = <<>> /\ r.answers = v
          BY DEF Message
        <4> QED BY <2>8, <4>1
      <3> QED BY <3>1, <3>2
    <2> QED BY <2>6, <2>7, <2>9
  <1>11. PICK t : t = (s \o a) \o b
    OBVIOUS
  <1>12. t = Append(s, y) \o b
    <2>1. s \o <<y>> = Append(s, y)
      BY <1>7, <1>9
    <2> QED BY <1>9, <1>11, <2>1
  <1>13. /\ t \in Seq(MessageRow) /\ Len(t) = p + 1 + m
         /\ \A k \in 1..p : t[k] = s[k]
         /\ t[p + 1] = y /\ \A i \in 1..m : t[p + 1 + i] = b[i]
    <2>1. /\ t \in Seq(MessageRow) /\ Len(t) = Len(s) + 1 + Len(b)
          /\ \A k \in 1..Len(s) : t[k] = s[k]
          /\ t[Len(s) + 1] = y
          /\ \A i \in 1..Len(b) : t[Len(s) + 1 + i] = b[i]
      <3>1. y \in MessageRow /\ b \in Seq(MessageRow)
        BY <1>9, <1>10
      <3> QED BY <1>7, <1>12, <3>1, RowsJoined
    <2> QED BY <1>8, <1>10, <2>1
  <1>14. Listed(t)
    <2>1. DOMAIN t = 1..Len(t) /\ Len(t) \in Nat
      BY <1>13
    <2> QED BY <2>1 DEF Listed
  <1>15. TurnAdded(s, t, ids)
    <2>1. t[p + 1].role = "assistant" /\ t[p + 1].calls = ids
      BY <1>9, <1>13
    <2>2. \A i \in 1..m : /\ t[p + 1 + i].role = "tool" /\ DOMAIN t[p + 1 + i].calls = {}
                         /\ t[p + 1 + i].answers = ids[i]
      BY <1>10, <1>13
    <2>3. Len(t) = p + 1 + m /\ \A k \in 1..p : t[k] = s[k]
      BY <1>13
    <2> QED BY <1>8, <1>14, <2>1, <2>2, <2>3 DEF TurnAdded
  <1>16. Messages(history) = s /\ Messages(g) = t
    BY <1>5, <1>6, <1>11 DEF Messages
  <1> QED BY <1>1, <1>15, <1>16

-----------------------------------------------------------------------------
(* The adapters keep their invariant.                                      *)

\* Without messages, and with smolagents' text, nothing is left open.
LEMMA TextPaired ==
  ASSUME NEW s, NEW b, Listed(s),
         \A k \in 1..Len(s) : s[k].role = "text" /\ DOMAIN s[k].calls = {}
  PROVE  Paired(s) /\ RoundsBefore(s, b)
  <1>1. \A k \in 1..Len(s) : s[k].role # "tool"
    OBVIOUS
  <1>2. Paired(s)
    BY <1>1 DEF Paired
  <1>3. RoundsBefore(s, b)
    BY <1>1 DEF RoundsBefore
  <1> QED BY <1>2, <1>3

LEMMA NoMessages ==
  ASSUME ChatAssumption, adapter \in Adapters
  PROVE  Listed(Messages(<<>>)) /\ Len(Messages(<<>>)) = 0
  <1>1. <<>> \in Seq(HeldRow) /\ Len(<<>>) = 0
    OBVIOUS
  <1>2. CASE adapter = "google"
    <2>1. [k \in DOMAIN <<>> |-> GooglePart((<<>>)[k])] = <<>>
      OBVIOUS
    <2>2. GoogleMessages(<<>>) = FlattenSeq(<<>>)
      BY <2>1 DEF GoogleMessages, GooglePart
    <2>3. Messages(<<>>) = <<>>
      BY <1>2, <2>2, FlattenEmpty DEF Messages
    <2>4. Listed(<<>>)
      BY <1>1 DEF Listed
    <2> QED BY <1>1, <2>3, <2>4
  <1>3. CASE adapter # "google"
    <2>1. adapter \in OneByOneAdapters
      BY <1>3 DEF OneByOneAdapters, ChatAssumption
    <2> QED BY <1>1, <2>1, OneByOne
  <1> QED BY <1>2, <1>3

LEMMA SmolagentsText ==
  ASSUME adapter = "smolagents", NEW h \in Seq(HeldRow), NEW b
  PROVE  Listed(Messages(h)) /\ Paired(Messages(h)) /\ RoundsBefore(Messages(h), b)
  <1>1. adapter \in OneByOneAdapters
    BY DEF OneByOneAdapters
  <1>2. PICK s : s = Messages(h)
    OBVIOUS
  <1>3. /\ Listed(s) /\ Len(s) = Len(h)
        /\ \A k \in 1..Len(h) : s[k] = OneMessage(h[k])
    BY <1>1, <1>2, OneByOne
  <1>4. \A m : OneMessage(m).role = "text" /\ DOMAIN OneMessage(m).calls = {}
    <2>1. \A m : OneMessage(m) = Message("text", <<>>, <<>>)
      BY DEF OneMessage
    <2>2. Message("text", <<>>, <<>>).role = "text" /\ Message("text", <<>>, <<>>).calls = <<>>
      BY DEF Message
    <2>3. DOMAIN <<>> = {}
      OBVIOUS
    <2> QED BY <2>1, <2>2, <2>3
  <1>5. \A k \in 1..Len(s) : s[k].role = "text" /\ DOMAIN s[k].calls = {}
    BY <1>3, <1>4
  <1> QED BY <1>2, <1>3, <1>5, TextPaired

\* A turn added to paired messages leaves them paired.
LEMMA RunPaired ==
  ASSUME ChatAssumption, ChatInv, RunTools
  PROVE  HistoryPaired'
  <1>1. /\ stage = "tools" /\ stage' \in {"request", "end"} /\ Answering
        /\ UNCHANGED <<adapter, style, round>>
    BY DEF RunTools, ChatInv
  <1>2. PICK n \in Keeps :
          history' = Append(history, Held("assistant", MadeCalls(n), <<>>)) \o Results(n)
    BY DEF RunTools, MadeCalls
  <1>3. stage' = "request" /\ adapter = "langchain" =>
          \E i \in DOMAIN built.calls : built.calls[i].valid
    BY DEF RunTools
  <1>4. SUFFICES ASSUME style # "noids", stage' = "request"
                 PROVE  /\ Listed(Messages(history')) /\ Paired(Messages(history'))
                        /\ RoundsBefore(Messages(history'), round + 1)
    BY <1>1, SameMessages DEF HistoryPaired
  <1>5. round \in Nat /\ adapter \in Adapters
    BY <1>1 DEF Answering, ChatType
  <1>6. history' \in Seq(HeldRow)
    BY <1>1, RunAnswering DEF Answering, ChatType
  <1>7. CASE adapter = "smolagents"
    BY <1>6, <1>7, SmolagentsText
  <1>8. CASE adapter # "smolagents"
    <2>1. PICK s, t, ids : s = Messages(history) /\ t = Messages(history') /\ ids = RanIds(n)
      OBVIOUS
    <2>2. Listed(s) /\ Paired(s) /\ RoundsBefore(s, round)
      BY <1>1, <1>4, <2>1 DEF ChatInv, HistoryPaired
    <2>3. TurnIds(ids, round)
      BY <1>1, <1>4, <2>1, RanIdsAre
    <2>4. TurnAdded(s, t, ids)
      <3>1. PICK g : g = history'
        OBVIOUS
      <3>2. g = Append(history, Held("assistant", MadeCalls(n), <<>>)) \o Results(n)
        BY <1>2, <3>1
      <3>3. CASE adapter = "google"
        <4>1. TurnAdded(Messages(history), Messages(g), RanIds(n))
          BY <1>1, <1>4, <3>2, <3>3, GoogleTurn
        <4> QED BY <2>1, <3>1, <4>1
      <3>4. CASE adapter # "google"
        <4>1. adapter \in OneByOneAdapters \ {"smolagents"}
          BY <1>5, <1>8, <3>4 DEF OneByOneAdapters, ChatAssumption
        <4>2. adapter = "langchain" => \E i \in DOMAIN built.calls : built.calls[i].valid
          BY <1>3, <1>4
        <4>3. TurnAdded(Messages(history), Messages(g), RanIds(n))
          BY <1>1, <1>4, <3>2, <4>1, <4>2, OneByOneTurn
        <4> QED BY <2>1, <3>1, <4>3
      <3> QED BY <3>3, <3>4
    <2>5. Listed(t) /\ Paired(t) /\ RoundsBefore(t, round + 1)
      BY <1>5, <2>2, <2>3, <2>4, TurnPairs
    <2> QED BY <2>1, <2>5
  <1> QED BY <1>7, <1>8

LEMMA ChatStart == ASSUME ChatAssumption, ChatInit PROVE ChatInv
  <1>1. <<>> \in Seq(HeldRow) /\ Len(<<>>) = 0 /\ DOMAIN <<>> = {}
    OBVIOUS
  <1>2. ChatType
    <2>1. mode \in {"whole", "stream", "astream"} /\ (adapter = "google" => mode # "stream")
      BY DEF ChatInit, Modes
    <2> QED BY <1>1, <2>1, AnswerBegins DEF ChatInit, ChatType
  <1>3. StreamsFail /\ Follows /\ CallsInOrder /\ SpanRead /\ ProperAnswersPass
    BY AnswerBegins DEF ChatInit, StreamsFail, Follows, CallsInOrder, SpanRead, ProperAnswersPass
  <1>4. Listed(<<>>) /\ Paired(<<>>)
    <2>1. Listed(<<>>)
      BY <1>1 DEF Listed
    <2> QED BY <1>1, <2>1, TextPaired
  <1>5. SentPaired
    BY <1>4 DEF SentPaired, ChatInit
  <1>6. HistoryPaired
    <2>1. adapter \in Adapters /\ history = <<>> /\ stage = "request"
      BY DEF ChatInit
    <2>2. PICK s : s = Messages(history)
      OBVIOUS
    <2>3. Listed(s) /\ Len(s) = 0
      BY <2>1, <2>2, NoMessages
    <2>4. Paired(s) /\ RoundsBefore(s, round + 1)
      BY <2>3, TextPaired
    <2> QED BY <2>1, <2>2, <2>3, <2>4 DEF HistoryPaired
  <1> QED BY <1>2, <1>3, <1>5, <1>6 DEF ChatInv, Answering

LEMMA ChatStep == ASSUME ChatAssumption, ChatInv, [ChatNext]_chatVars PROVE ChatInv'
  <1>0. Answering /\ HistoryPaired /\ SentPaired /\ round \in Nat
    BY DEF ChatInv, Answering, ChatType
  <1>1. CASE Request
    <2>1. Answering'
      BY <1>0, <1>1, RequestAnswering
    <2>2. /\ UNCHANGED <<adapter, style, history>> /\ round' = round + 1
          /\ stage = "request" /\ stage' \in {"answer", "chunks"} /\ sent' = Messages(history)
      BY <1>1 DEF Request
    <2>3. Messages(history)' = Messages(history)
      BY <2>2, SameMessages
    <2>4. HistoryPaired'
      BY <1>0, <2>2, <2>3 DEF HistoryPaired
    <2>5. SentPaired'
      BY <1>0, <2>2 DEF HistoryPaired, SentPaired
    <2> QED BY <2>1, <2>4, <2>5 DEF ChatInv
  <1>5. CASE AinvokeStream
    <2>1. Answering'
      BY <1>0, <1>5, AinvokeAnswering
    <2>2. stage' = "failed" /\ UNCHANGED <<style, sent>>
      BY <1>5 DEF AinvokeStream, Fail
    <2>3. HistoryPaired' /\ SentPaired'
      BY <1>0, <2>2 DEF HistoryPaired, SentPaired
    <2> QED BY <2>1, <2>3 DEF ChatInv
  <1>2. CASE \/ Answer \/ StreamChunk \/ StreamEnds \/ AfterLlmCall
    <2>1. Answering'
      BY <1>0, <1>2, AnswerAnswering, ChunkAnswering, EndAnswering, SpanAnswering
    <2>2. /\ UNCHANGED <<adapter, style, round, history, sent>>
          /\ stage \notin {"request", "end", "failed"} /\ stage' # "request"
      <3>1. CASE Answer
        <4>1. /\ stage = "answer" /\ UNCHANGED <<adapter, style, round, history, sent>>
              /\ \E w : Parse(w)
          BY <3>1 DEF Answer
        <4>2. stage' \in {"span", "failed"}
          BY <1>0, <4>1 DEF Answering, ChatType, ChatAssumption, Parse, AgnoParse, GoogleParse,
                 LangchainParse, LlamaIndexParse, OpenAIParse, SmolagentsParse, Fail
        <4> QED BY <4>1, <4>2
      <3>2. CASE StreamChunk
        BY <3>2 DEF StreamChunk, Fail
      <3>3. CASE StreamEnds
        BY <3>3 DEF StreamEnds
      <3>4. CASE AfterLlmCall
        BY <3>4 DEF AfterLlmCall, Fail
      <3> QED BY <1>2, <3>1, <3>2, <3>3, <3>4
    <2>3. Messages(history)' = Messages(history)
      BY <2>2, SameMessages
    <2>4. HistoryPaired'
      BY <1>0, <2>2, <2>3 DEF HistoryPaired
    <2>5. SentPaired'
      BY <1>0, <2>2 DEF SentPaired
    <2> QED BY <2>1, <2>4, <2>5 DEF ChatInv
  <1>3. CASE RunTools
    <2>1. Answering' /\ HistoryPaired'
      BY <1>0, <1>3, RunAnswering, RunPaired
    <2>2. SentPaired'
      <3>1. UNCHANGED <<style, sent>>
        BY <1>3 DEF RunTools
      <3> QED BY <1>0, <3>1 DEF SentPaired
    <2> QED BY <2>1, <2>2 DEF ChatInv
  <1>4. CASE UNCHANGED chatVars
    <2>1. UNCHANGED <<adapter, style, mode, stage, round, said, built, chunks, told, history,
                      sent, error>>
      BY <1>4 DEF chatVars
    <2>2. SpanOf(built)' = SpanOf(built) /\ (Wrapped' <=> Wrapped)
      BY <2>1 DEF SpanOf, AgnoSpan, GoogleSpan, LangchainSpan, LlamaIndexSpan, OpenAISpan,
                  SmolagentsSpan, Wrapped
    <2>3. Answering'
      <3>1. ChatType' /\ StreamsFail' /\ ProperAnswersPass'
        BY <1>0, <2>1 DEF Answering, ChatType, StreamsFail, ProperAnswersPass, AnyInvalid
      <3>2. Follows'
        BY <1>0, <2>1 DEF Answering, Follows, Joins, Repeated
      <3>3. CallsInOrder'
        BY <1>0, <2>1 DEF Answering, CallsInOrder, Indexed, Named, HasIds, IndexOf
      <3>4. SpanRead'
        BY <1>0, <2>1, <2>2 DEF Answering, SpanRead
      <3> QED BY <3>1, <3>2, <3>3, <3>4 DEF Answering
    <2>4. Messages(history)' = Messages(history)
      BY <2>1, SameMessages
    <2>5. HistoryPaired' /\ SentPaired'
      BY <1>0, <2>1, <2>4 DEF HistoryPaired, SentPaired
    <2> QED BY <2>3, <2>5 DEF ChatInv
  <1> QED BY <1>1, <1>2, <1>3, <1>4, <1>5 DEF ChatNext

\* What the framework has follows what the provider said, and the messages it
\* keeps of a conversation are paired after every turn.
THEOREM ChatInvariant == ChatSpec => []ChatInv
  <1>1. ChatInit => ChatInv
    BY ChatAssumption, ChatStart
  <1>2. ChatInv /\ [ChatNext]_chatVars => ChatInv'
    BY ChatAssumption, ChatStep
  <1> QED BY <1>1, <1>2, PTL DEF ChatSpec

\* A proper answer comes through an adapter that works, with the calls the
\* provider means in it, however their pieces were interleaved (the _convert and
\* parse functions of any_agent/frameworks and vendor).
THEOREM AnswersAlwaysArrive == ChatSpec => []AnswerArrives
  <1>1. ChatInv => AnswerArrives
    <2>1. SUFFICES ASSUME ChatInv, stage = "span" PROVE AnswerIsWhole
      BY DEF ChatInv, Answering, AnswerArrives, AnswerIsWhole
    <2>2. ChatType /\ Follows /\ CallsInOrder
      BY <2>1 DEF ChatInv, Answering
    <2>3. CASE mode = "whole" \/ adapter \in {"agno", "langchain", "openai", "smolagents"}
      BY <2>1, <2>2, <2>3 DEF Follows, AnswerIsWhole
    <2>4. CASE adapter = "google" /\ mode # "whole"
      BY <2>2, <2>4 DEF ChatType, AnswerIsWhole
    <2>5. CASE adapter = "llama_index" /\ mode # "whole"
      <3>1. PICK b, s : b = built.calls /\ s = said.calls
        OBVIOUS
      <3>2. Joins(b, s) /\ built.text = said.text /\ Named(s)
        BY <2>1, <2>2, <2>5, <3>1 DEF Follows, CallsInOrder
      <3>3. CASE style \in {"proper", "noids"}
        BY <2>1, <3>1, <3>2, <3>3 DEF Joins, AnswerIsWhole
      <3>4. CASE style = "repeats"
        <4>1. Repeated(b, s)
          BY <3>2, <3>4 DEF Joins
        <4>2. ArgumentsWhole
          BY <3>1, <3>2, <4>1 DEF ArgumentsWhole, Repeated, Named
        <4> QED BY <2>5, <3>2, <3>4, <4>2 DEF AnswerIsWhole
      <3>5. CASE style = "noindex"
        <4>1. Len(s) \in Nat
          BY <2>2, <3>1, AnswersAre DEF ChatType
        <4>2. Len(s) <= 1 \/ Len(s) > 1
          BY <4>1
        <4> QED BY <2>5, <3>1, <3>2, <3>5, <4>2 DEF Joins, AnswerIsWhole
      <3> QED BY <2>2, <3>3, <3>4, <3>5 DEF ChatType, Styles
    <2> QED BY <2>2, <2>3, <2>4, <2>5, ChatAssumption DEF ChatType, ChatAssumption
  <1> QED BY <1>1, ChatInvariant, PTL

\* The span of a model call the wrappers see tells what it cost and which tools
\* it asked for, but for the losses SpanIsTrue names (the after_llm_call of the
\* callbacks in any_agent/callbacks/span_generation).
THEOREM SpansAreTrue == ChatSpec => []SpanIsTrue
  <1>1. ChatInv => SpanIsTrue
    <2>1. SUFFICES ASSUME ChatInv PROVE SpanIsTrue
      OBVIOUS
    <2>2. ChatType /\ Follows /\ SpanRead
      BY <2>1 DEF ChatInv, Answering
    <2>3. stage \in {"tools", "end"} /\ Wrapped => told = SpanOf(built)
      BY <2>2 DEF SpanRead
    <2>4. PICK c : c = built.calls
      OBVIOUS
    <2>5. c \in Seq(CallRow)
      BY <2>2, <2>4, AnswersAre DEF ChatType
    <2>6. Len(c) \in Nat /\ (c # <<>> => Len(c) # 0)
      BY <2>5
    <2>7. UsageArrives
      BY <2>2, <2>3, ChatAssumption DEF UsageArrives, ChatType, Follows, ChatAssumption, SpanOf,
         AgnoSpan, GoogleSpan, LangchainSpan, LlamaIndexSpan, OpenAISpan, SmolagentsSpan, Tells
    <2>8. SpanNamesCalls
      <3>1. SUFFICES ASSUME stage = "tools", Wrapped PROVE SpanNamesCalls
        BY DEF SpanNamesCalls
      <3>2. c # <<>> /\ told = SpanOf(built) /\ adapter \in Adapters
        BY <2>2, <2>4, <3>1 DEF SpanRead, ChatType
      <3>3. ASSUME adapter \notin {"openai", "langchain"}
            PROVE  \/ told.calls = Len(c)
                   \/ built.text /\ adapter \in {"google", "smolagents"}
        BY <2>4, <3>2, <3>3, ChatAssumption DEF ChatAssumption, SpanOf, AgnoSpan, GoogleSpan,
           LlamaIndexSpan, SmolagentsSpan, Tells
      <3>6. adapter = "langchain" => built.text \/ told.calls = Len(Parsed(c))
        BY <2>4, <3>2 DEF SpanOf, LangchainSpan, Tells
      <3>4. adapter = "openai" => built.thinks \/ built.text \/ told.calls = 1
        BY <2>4, <3>2 DEF SpanOf, OpenAISpan, Tells
      <3>5. Len(c) # 0 => Len(c) = 1 \/ Len(c) > 1
        <4>1. \A m \in Nat : m # 0 => m = 1 \/ m > 1
          OBVIOUS
        <4> QED BY <2>6, <4>1
      <3> QED BY <2>4, <2>6, <3>2, <3>3, <3>4, <3>5, <3>6 DEF SpanNamesCalls
    <2> QED BY <2>7, <2>8 DEF SpanIsTrue
  <1> QED BY <1>1, ChatInvariant, PTL

\* What a provider is sent pairs every call with one later answer, and every
\* answer with a call, as long as the provider gives its calls ids (the message
\* conversions of any_agent/frameworks and vendor).
THEOREM RequestsArePaired == ChatSpec => []RequestPaired
  <1>1. ChatInv => RequestPaired
    <2>1. SUFFICES ASSUME ChatInv, style # "noids" PROVE RequestPaired
      BY DEF RequestPaired
    <2>2. Listed(sent) /\ Paired(sent)
      BY <2>1 DEF ChatInv, SentPaired
    <2>3. DOMAIN sent = 1..Len(sent)
      BY <2>2 DEF Listed
    <2>4. ASSUME NEW k \in DOMAIN sent, NEW i \in DOMAIN sent[k].calls
          PROVE  Cardinality({j \in DOMAIN sent :
                   sent[j].role = "tool" /\ sent[j].answers = sent[k].calls[i] /\ j > k}) = 1
      <3>1. PICK j \in 1..Len(sent) :
              j > k /\ sent[j].role = "tool" /\ sent[j].answers = sent[k].calls[i]
        BY <2>2, <2>3, <2>4 DEF Paired
      <3>2. \A l \in 1..Len(sent) :
              sent[l].role = "tool" /\ sent[l].answers = sent[k].calls[i] => l = j
        BY <2>2, <3>1 DEF Paired
      <3>3. {l \in DOMAIN sent :
               sent[l].role = "tool" /\ sent[l].answers = sent[k].calls[i] /\ l > k} = {j}
        BY <2>3, <3>1, <3>2
      <3> QED BY <3>3, FS_Singleton
    <2>5. ASSUME NEW j \in DOMAIN sent, sent[j].role = "tool"
          PROVE  \E k \in 1..(j - 1) : \E i \in DOMAIN sent[k].calls :
                   sent[k].calls[i] = sent[j].answers
      BY <2>2, <2>3, <2>5 DEF Paired
    <2> QED BY <2>4, <2>5 DEF RequestPaired
  <1> QED BY <1>1, ChatInvariant, PTL

=============================================================================
