-------------------------- MODULE SideRoutesProofs --------------------------
(***************************************************************************)
(* What the side routes leave behind, for any number of requests and users, *)
(* any prices and any set of faults.                                       *)
(*                                                                         *)
(* A step is a step of one request, and what a request may assume of itself *)
(* at an await is a predicate of its own part of the state (Own).  The sums *)
(* over the requests of a user move with the one request that steps, by the *)
(* lemmas of LibraryLemmas.                                                *)
(***************************************************************************)
EXTENDS SideRoutes, LibraryLemmas, FiniteSetTheorems, TLAPS

Audio  == {"transcription", "speech"}
Priced == Settling \ Audio

AtBatch  == {"creating", "logBatch", "logBatchFailed", "atProvider", "logResults"}
AtMoney  == {"selector", "pricing", "reserve", "gate", "upload", "call", "logServed",
             "reconcile", "logFailed", "refund"}
Uncalled == {"idle", "selector", "pricing", "reserve", "gate", "upload", "call"}
Unsettled == PCs \ {"logFailed", "refund", "over"}

SideTypes ==
  /\ TypeOK
  /\ key \in [Requests -> Users \cup {NoUser, Master}]
  /\ answer \in [Requests -> {"none", "served", "error", "gone"}]
  /\ charges \in [Requests -> Nat] /\ releases \in [Requests -> Nat]
  /\ billed \in [Requests -> Nat]

\* The route and the price that belong to an await.
Placed(r) ==
  /\ pc[r] = "idle" => local[r] = NoLocal
  /\ local[r].route \in Audio => local[r].price = NoPrice
  /\ pc[r] \in {"selector", "reserve", "call"} => local[r].route \in Settling
  /\ pc[r] = "pricing" => local[r].route \in Priced
  /\ pc[r] = "gate" => local[r].route \in Priced \ {"moderations"}
  /\ pc[r] = "upload" => local[r].route = "transcription"

\* The hold: whose budget it is on, and where it can only be empty.
HeldRight(r) ==
  /\ pc[r] \in AtMoney => user[r] \in Users
  /\ user[r] \in Users => key[r] \in {Master, user[r]}
  /\ ~handle[r].reserved => handle[r].estimate = 0
  /\ handle[r].reserved => user[r] \in Budgeted
  /\ pc[r] \in {"idle", "pricing", "reserve"} \cup AtBatch => ~handle[r].reserved
  /\ pc[r] = "selector" /\ local[r].route \in Priced => ~handle[r].reserved
  /\ pc[r] \in {"selector", "upload"} => handle[r].estimate = 0
  /\ pc[r] = "over" /\ Outstanding(r) /\ handle[r].estimate > 0
       => mishaps[r] \cap {"cancel", "database", "log"} # {}

\* What has been settled and logged.
SettledRight(r) ==
  /\ pc[r] \in Unsettled => charges[r] = 0 /\ releases[r] = 0 /\ billed[r] = 0
  /\ pc[r] \in {"logFailed", "refund"} =>
       /\ releases[r] \in {0, 1} /\ (releases[r] = 1 => "database" \in mishaps[r])
       /\ "success" \in rows[r] => mishaps[r] # {}
  /\ releases[r] > 1 => "database" \in mishaps[r]
  /\ pc[r] \in Unsettled \ {"reconcile"} => rows[r] = {}
  /\ pc[r] = "reconcile" => "success" \in rows[r]
  /\ pc[r] \in Uncalled \cup AtBatch => cost[r] = 0
  /\ billed[r] > 0 => "success" \in rows[r] /\ charges[r] = 1 /\ billed[r] = cost[r] /\ user[r] \in Users
  /\ pc[r] = "over" /\ "success" \in rows[r] /\ billed[r] < cost[r] => mishaps[r] # {}

\* The temporary file and the job.
CleanedUp(r) ==
  /\ r \in files => pc[r] \in {"creating", "logBatchFailed"} \/ "disk" \in mishaps[r]
  /\ job[r] # "none" =>
       \/ pc[r] = "logBatch"
       \/ pc[r] = "logBatchFailed" /\ "reply" \in mishaps[r]
       \/ pc[r] = "over" /\ (answer[r] = "served" \/ mishaps[r] \cap {"cancel", "log", "reply"} # {})

Own(r) == Placed(r) /\ HeldRight(r) /\ SettledRight(r) /\ CleanedUp(r)

Of(u)    == {r \in Requests : user[r] = u}
Holds    == [r \in Requests |-> handle[r].estimate]
Overruns == [r \in Requests |-> Monus(billed[r], handle[r].estimate)]

\* No hold of a request of u was given back twice.
OnceReleased(u) == \A r \in Requests : user[r] = u => releases[r] <= 1

SpendAddsUp == \A u \in Users : spend[u] = SumFunctionOnSet(billed, Of(u))
HoldsAddUp  == \A u \in Budgeted : OnceReleased(u) => reserved[u] = SumFunctionOnSet(Holds, HeldBy(u))
CapIsKept   == \A u \in Budgeted :
  OnceReleased(u) => spend[u] + reserved[u] <= Cap + SumFunctionOnSet(Overruns, Of(u))

SideInv == SideTypes /\ (\A r \in Requests : Own(r)) /\ SpendAddsUp /\ HoldsAddUp /\ CapIsKept

-----------------------------------------------------------------------------
(***************************************************************************)
(* Prices.                                                                 *)
(***************************************************************************)

LEMMA EstimateIs ==
  ASSUME NEW rt \in Settling, NEW p \in Prices \cup {NoPrice}, NEW asked \in 0..MaxUnits
  PROVE  Estimate(rt, p, asked) \in Nat /\ (p = NoPrice => Estimate(rt, p, asked) = 0)
  <1>1. CASE p = NoPrice
    BY <1>1 DEF Estimate
  <1>2. CASE p \in Prices
    <2>1. p \in Nat /\ asked \in Nat /\ p # NoPrice /\ asked \in Counts
      BY <1>2, SideRoutesAssumption DEF Counts, Units
    <2>2. PerUnit[p][asked] \in Nat /\ PerCall[p][asked] \in Nat /\ Unpriced[p][asked] \in Nat
      <3>1. asked * p \in Nat
        BY <2>1
      <3> QED BY <1>2, <2>1, <3>1 DEF PerUnit, PerCall, Unpriced
    <2>3. Estimate(rt, p, asked) \in {PerUnit[p][asked], PerCall[p][asked], Unpriced[p][asked]}
      BY <2>1 DEF Estimate, Handler, Settling, create_embedding, create_rerank, create_moderation,
                  create_image, create_transcription, create_speech
    <2> QED BY <2>1, <2>2, <2>3
  <1> QED BY <1>1, <1>2

LEMMA CostIs ==
  ASSUME NEW rt \in Settling, NEW p \in Prices \cup {NoPrice}, NEW asked \in 0..MaxUnits,
         NEW n \in Units
  PROVE  Cost(rt, p, asked, n) \in Nat
  <1>1. CASE p = NoPrice
    BY <1>1 DEF Cost
  <1>2. CASE p \in Prices
    <2>1. p \in Nat /\ asked \in Nat /\ p # NoPrice /\ asked \in Counts /\ n \in Units /\ n \in Int /\ n >= -1
      BY <1>2, SideRoutesAssumption DEF Counts, Units
    <2>2. asked * p \in Nat /\ (n # -1 => n * p \in Nat)
      <3>1. \A a, b \in Nat : a * b \in Nat
        OBVIOUS
      <3>2. n # -1 => n \in Nat
        BY <2>1
      <3> QED BY <2>1, <3>1, <3>2
    <2>3. /\ Reported[p][asked][n] \in Nat
          /\ Whole(PerCall)[p][asked][n] \in Nat /\ Whole(Unpriced)[p][asked][n] \in Nat
      BY <1>2, <2>1, <2>2 DEF Reported, Whole, PerCall, Unpriced
    <2>4. create_image.cost[p][asked][n] \in Nat
      BY <1>2, <2>1, <2>2 DEF create_image
    <2>5. Cost(rt, p, asked, n) \in {Reported[p][asked][n], Whole(PerCall)[p][asked][n],
                                     Whole(Unpriced)[p][asked][n], create_image.cost[p][asked][n]}
      <3> HIDE DEF create_image
      <3>1. Cost(rt, p, asked, n) = Handler[rt].cost[p][asked][n]
        BY <2>1 DEF Cost
      <3>2. Handler[rt].cost \in {Reported, Whole(PerCall), Whole(Unpriced), create_image.cost}
        BY DEF Handler, Settling, create_embedding, create_rerank, create_moderation,
               create_transcription, create_speech
      <3> QED BY <3>1, <3>2
    <2> QED BY <2>3, <2>4, <2>5
  <1> QED BY <1>1, <1>2

\* The step that follows, for each step that one follows.
LEMMA FollowingIs ==
  ASSUME NEW r \in Requests, local[r].route \in Settling
  PROVE  /\ Head(Handler[local[r].route].steps) = IF local[r].route \in Audio THEN "reserve" ELSE "selector"
         /\ pc[r] = "selector" /\ local[r].route \in Priced => Following(r) = "pricing"
         /\ pc[r] = "selector" /\ local[r].route = "transcription" => Following(r) = "upload"
         /\ pc[r] = "selector" /\ local[r].route = "speech" => Following(r) = "call"
         /\ pc[r] = "pricing" /\ local[r].route \in Priced => Following(r) = "reserve"
         /\ pc[r] = "reserve" /\ local[r].route \in Audio => Following(r) = "selector"
         /\ pc[r] = "reserve" /\ local[r].route = "moderations" => Following(r) = "call"
         /\ pc[r] = "reserve" /\ local[r].route \in Priced \ {"moderations"} => Following(r) = "gate"
         /\ pc[r] = "gate" /\ local[r].route \in Priced \ {"moderations"} => Following(r) = "call"
         /\ pc[r] = "upload" /\ local[r].route = "transcription" => Following(r) = "call"
  <1> DEFINE steps == Handler[local[r].route].steps
  <1>1. CASE local[r].route \in Priced \ {"moderations"}
    <2>1. steps = <<"selector", "pricing", "reserve", "gate", "call">>
      BY <1>1 DEF Handler, Priced, Settling, Audio, create_embedding, create_rerank, create_image
    <2>2. Head(steps) = "selector" /\ Len(steps) - 1 = 4 /\ 1..4 = {1, 2, 3, 4}
      BY <2>1
    <2> QED BY <1>1, <2>1, <2>2 DEF Following, PCs, Priced, Audio
  <1>2. CASE local[r].route = "moderations"
    <2>1. steps = <<"selector", "pricing", "reserve", "call">>
      BY <1>2 DEF Handler, create_moderation
    <2>2. Head(steps) = "selector" /\ Len(steps) - 1 = 3 /\ 1..3 = {1, 2, 3}
      BY <2>1
    <2> QED BY <1>2, <2>1, <2>2 DEF Following, PCs, Priced, Audio
  <1>3. CASE local[r].route = "transcription"
    <2>1. steps = <<"reserve", "selector", "upload", "call">>
      BY <1>3 DEF Handler, create_transcription
    <2>2. Head(steps) = "reserve" /\ Len(steps) - 1 = 3 /\ 1..3 = {1, 2, 3}
      BY <2>1
    <2> QED BY <1>3, <2>1, <2>2 DEF Following, PCs, Priced, Audio
  <1>4. CASE local[r].route = "speech"
    <2>1. steps = <<"reserve", "selector", "call">>
      BY <1>4 DEF Handler, create_speech
    <2>2. Head(steps) = "reserve" /\ Len(steps) - 1 = 2 /\ 1..2 = {1, 2}
      BY <2>1
    <2> QED BY <1>4, <2>1, <2>2 DEF Following, PCs, Priced, Audio
  <1> QED BY <1>1, <1>2, <1>3, <1>4 DEF Priced, Audio, Settling

-----------------------------------------------------------------------------
(***************************************************************************)
(* A step is a step of one request.                                        *)
(***************************************************************************)

Keeps(q) ==
  /\ pc'[q] = pc[q] /\ key'[q] = key[q] /\ user'[q] = user[q] /\ local'[q] = local[q]
  /\ handle'[q] = handle[q] /\ cost'[q] = cost[q] /\ answer'[q] = answer[q]
  /\ rows'[q] = rows[q] /\ charges'[q] = charges[q] /\ releases'[q] = releases[q]
  /\ billed'[q] = billed[q] /\ mishaps'[q] = mishaps[q]
  /\ q \in files' => q \in files
  /\ job'[q] # "none" => job[q] # "none"

StepOf(r) == \A q \in Requests : q # r => Keeps(q)

LEMMA KeepsOwn ==
  ASSUME NEW q \in Requests, Own(q), Keeps(q)
  PROVE  Own(q)'
  <1>1. Placed(q)'
    BY DEF Own, Keeps, Placed
  <1>2. HeldRight(q)'
    BY DEF Own, Keeps, HeldRight, Outstanding
  <1>3. SettledRight(q)'
    BY DEF Own, Keeps, SettledRight
  <1>4. CleanedUp(q)'
    BY DEF Own, Keeps, CleanedUp
  <1> QED BY <1>1, <1>2, <1>3, <1>4 DEF Own

-----------------------------------------------------------------------------
(***************************************************************************)
(* The sums.                                                               *)
(***************************************************************************)

\* Two sums over sets that differ in at most one element.
LEMMA SumsDiffer ==
  ASSUME NEW S, IsFiniteSet(S), NEW T, IsFiniteSet(T), NEW e, S \ {e} = T \ {e},
         NEW f, NEW g, \A x \in S : f[x] \in Nat, \A x \in T : g[x] \in Nat,
         \A x \in S : x # e => f[x] = g[x]
  PROVE  \E n \in Nat :
           /\ SumFunctionOnSet(f, S) = (IF e \in S THEN f[e] ELSE 0) + n
           /\ SumFunctionOnSet(g, T) = (IF e \in T THEN g[e] ELSE 0) + n
  <1>1. PICK U : U = S \ {e} /\ U = T \ {e}
    OBVIOUS
  <1>2. IsFiniteSet(U)
    BY <1>1, FS_RemoveElement
  <1>3. SumFunctionOnSet(f, U) \in Nat
    BY <1>1, <1>2, SumType
  <1>4. SumFunctionOnSet(f, U) = SumFunctionOnSet(g, U)
    BY <1>1, <1>2, SumSame
  <1>5. SumFunctionOnSet(f, S) = (IF e \in S THEN f[e] ELSE 0) + SumFunctionOnSet(f, U)
    <2>1. CASE e \in S
      BY <1>1, <2>1, SumTakes
    <2>2. CASE e \notin S
      <3>1. S = U
        BY <1>1, <2>2
      <3> QED BY <1>3, <2>2, <3>1
    <2> QED BY <2>1, <2>2
  <1>6. SumFunctionOnSet(g, T) = (IF e \in T THEN g[e] ELSE 0) + SumFunctionOnSet(g, U)
    <2>1. CASE e \in T
      BY <1>1, <2>1, SumTakes
    <2>2. CASE e \notin T
      <3>1. T = U
        BY <1>1, <2>2
      <3> QED BY <1>3, <1>4, <2>2, <3>1
    <2> QED BY <2>1, <2>2
  <1> QED BY <1>3, <1>4, <1>5, <1>6

Zero(S, f, e) == IF e \in S THEN f[e] ELSE 0

\* The three sums of a user, before and after a step of r.
LEMMA UserSums ==
  ASSUME SideTypes, SideTypes', NEW r \in Requests, StepOf(r), NEW u
  PROVE  /\ \E n \in Nat : /\ SumFunctionOnSet(billed, Of(u)) = Zero(Of(u), billed, r) + n
                           /\ SumFunctionOnSet(billed, Of(u))' = Zero(Of(u), billed, r)' + n
         /\ \E n \in Nat : /\ SumFunctionOnSet(Holds, HeldBy(u)) = Zero(HeldBy(u), Holds, r) + n
                           /\ SumFunctionOnSet(Holds, HeldBy(u))' = Zero(HeldBy(u), Holds, r)' + n
         /\ \E n \in Nat : /\ SumFunctionOnSet(Overruns, Of(u)) = Zero(Of(u), Overruns, r) + n
                           /\ SumFunctionOnSet(Overruns, Of(u))' = Zero(Of(u), Overruns, r)' + n
  <1>1. IsFiniteSet(Of(u)) /\ IsFiniteSet(Of(u)') /\ IsFiniteSet(HeldBy(u)) /\ IsFiniteSet(HeldBy(u)')
    BY SideRoutesAssumption, FS_Subset DEF Of, HeldBy
  <1>2. Of(u) \ {r} = Of(u)' \ {r} /\ HeldBy(u) \ {r} = HeldBy(u)' \ {r}
    BY DEF StepOf, Keeps, Of, HeldBy, Outstanding
  <1>3. \A q \in Requests : /\ billed[q] \in Nat /\ billed'[q] \in Nat
                            /\ Holds[q] \in Nat /\ Holds'[q] \in Nat
                            /\ Overruns[q] \in Nat /\ Overruns'[q] \in Nat
    BY DEF SideTypes, TypeOK, Handles, Holds, Overruns, Monus
  <1>4. \A q \in Requests : q # r => /\ billed[q] = billed'[q] /\ Holds[q] = Holds'[q]
                                     /\ Overruns[q] = Overruns'[q]
    BY DEF StepOf, Keeps, Holds, Overruns
  <1>5. Of(u) \subseteq Requests /\ Of(u)' \subseteq Requests
        /\ HeldBy(u) \subseteq Requests /\ HeldBy(u)' \subseteq Requests
    BY DEF Of, HeldBy
  <1> HIDE DEF SideTypes, Of, HeldBy, Holds, Overruns
  <1>6. \E n \in Nat : /\ SumFunctionOnSet(billed, Of(u)) = Zero(Of(u), billed, r) + n
                       /\ SumFunctionOnSet(billed, Of(u))' = Zero(Of(u), billed, r)' + n
    <2>1. PICK S, T, f, g : S = Of(u) /\ T = Of(u)' /\ f = billed /\ g = billed'
      OBVIOUS
    <2>2. IsFiniteSet(S) /\ IsFiniteSet(T) /\ S \ {r} = T \ {r}
      BY <1>1, <1>2, <2>1
    <2>3. /\ \A q \in S : f[q] \in Nat
          /\ \A q \in T : g[q] \in Nat
          /\ \A q \in S : q # r => f[q] = g[q]
      BY <1>3, <1>4, <1>5, <2>1
    <2>4. \E n \in Nat : /\ SumFunctionOnSet(f, S) = (IF r \in S THEN f[r] ELSE 0) + n
                         /\ SumFunctionOnSet(g, T) = (IF r \in T THEN g[r] ELSE 0) + n
      BY <2>2, <2>3, SumsDiffer
    <2> QED BY <2>1, <2>4 DEF Zero
  <1>7. \E n \in Nat : /\ SumFunctionOnSet(Holds, HeldBy(u)) = Zero(HeldBy(u), Holds, r) + n
                       /\ SumFunctionOnSet(Holds, HeldBy(u))' = Zero(HeldBy(u), Holds, r)' + n
    <2>1. PICK S, T, f, g : S = HeldBy(u) /\ T = HeldBy(u)' /\ f = Holds /\ g = Holds'
      OBVIOUS
    <2>2. IsFiniteSet(S) /\ IsFiniteSet(T) /\ S \ {r} = T \ {r}
      BY <1>1, <1>2, <2>1
    <2>3. /\ \A q \in S : f[q] \in Nat
          /\ \A q \in T : g[q] \in Nat
          /\ \A q \in S : q # r => f[q] = g[q]
      BY <1>3, <1>4, <1>5, <2>1
    <2>4. \E n \in Nat : /\ SumFunctionOnSet(f, S) = (IF r \in S THEN f[r] ELSE 0) + n
                         /\ SumFunctionOnSet(g, T) = (IF r \in T THEN g[r] ELSE 0) + n
      BY <2>2, <2>3, SumsDiffer
    <2> QED BY <2>1, <2>4 DEF Zero
  <1>8. \E n \in Nat : /\ SumFunctionOnSet(Overruns, Of(u)) = Zero(Of(u), Overruns, r) + n
                       /\ SumFunctionOnSet(Overruns, Of(u))' = Zero(Of(u), Overruns, r)' + n
    <2>1. PICK S, T, f, g : S = Of(u) /\ T = Of(u)' /\ f = Overruns /\ g = Overruns'
      OBVIOUS
    <2>2. IsFiniteSet(S) /\ IsFiniteSet(T) /\ S \ {r} = T \ {r}
      BY <1>1, <1>2, <2>1
    <2>3. /\ \A q \in S : f[q] \in Nat
          /\ \A q \in T : g[q] \in Nat
          /\ \A q \in S : q # r => f[q] = g[q]
      BY <1>3, <1>4, <1>5, <2>1
    <2>4. \E n \in Nat : /\ SumFunctionOnSet(f, S) = (IF r \in S THEN f[r] ELSE 0) + n
                         /\ SumFunctionOnSet(g, T) = (IF r \in T THEN g[r] ELSE 0) + n
      BY <2>2, <2>3, SumsDiffer
    <2> QED BY <2>1, <2>4 DEF Zero
  <1> QED BY <1>6, <1>7, <1>8

Money == SpendAddsUp /\ HoldsAddUp /\ CapIsKept

LEMMA ZerosOf ==
  ASSUME SideTypes, NEW r \in Requests, NEW u
  PROVE  /\ Zero(Of(u), billed, r) = IF user[r] = u THEN billed[r] ELSE 0
         /\ Zero(Of(u), Overruns, r) = IF user[r] = u THEN Monus(billed[r], handle[r].estimate) ELSE 0
         /\ Zero(HeldBy(u), Holds, r) = IF user[r] = u /\ Outstanding(r) THEN handle[r].estimate ELSE 0
  BY DEF Zero, Of, Overruns, HeldBy, Holds

LEMMA ZerosOfNext ==
  ASSUME SideTypes', NEW r \in Requests, NEW u
  PROVE  /\ Zero(Of(u), billed, r)' = IF user'[r] = u THEN billed'[r] ELSE 0
         /\ Zero(Of(u), Overruns, r)' = IF user'[r] = u THEN Monus(billed'[r], handle'[r].estimate) ELSE 0
         /\ Zero(HeldBy(u), Holds, r)' = IF user'[r] = u /\ Outstanding(r)' THEN handle'[r].estimate ELSE 0
  BY DEF Zero, Of, Overruns, HeldBy, Holds

\* Steps that move no money, the first step of a request included.
LEMMA QuietMoney ==
  ASSUME SideTypes, SideTypes', NEW r \in Requests, StepOf(r), Money,
         UNCHANGED ledger, handle'[r] = handle[r],
         user'[r] = user[r] \/ (billed[r] = 0 /\ releases[r] = 0 /\ ~handle[r].reserved)
  PROVE  Money'
  <1>1. \A u : /\ Zero(Of(u), billed, r)' = Zero(Of(u), billed, r)
               /\ Zero(Of(u), Overruns, r)' = Zero(Of(u), Overruns, r)
               /\ Zero(HeldBy(u), Holds, r)' = Zero(HeldBy(u), Holds, r)
    <2> TAKE u
    <2>1. Outstanding(r)' = Outstanding(r)
      BY DEF Outstanding, ledger
    <2>2. user'[r] = user[r] \/ (billed[r] = 0 /\ ~Outstanding(r))
      BY DEF Outstanding
    <2>3. handle[r].estimate \in Nat
      BY DEF SideTypes, TypeOK, Handles
    <2>4. billed' = billed
      BY DEF ledger
    <2> HIDE DEF SideTypes
    <2> QED BY <2>1, <2>2, <2>3, <2>4, ZerosOf, ZerosOfNext DEF Monus
  <1>2. \A u : OnceReleased(u)' => OnceReleased(u)
    <2> SUFFICES ASSUME NEW u, OnceReleased(u)', NEW q \in Requests, user[q] = u PROVE releases[q] <= 1
      BY DEF OnceReleased
    <2>1. releases' = releases
      BY DEF ledger
    <2>2. CASE user'[q] = user[q]
      BY <2>1, <2>2 DEF OnceReleased
    <2>3. CASE user'[q] # user[q]
      <3>1. q = r /\ releases[q] = 0
        BY <2>3 DEF StepOf, Keeps
      <3> QED BY <3>1
    <2> QED BY <2>2, <2>3
  <1>3. \A u : /\ SumFunctionOnSet(billed, Of(u))' = SumFunctionOnSet(billed, Of(u))
               /\ SumFunctionOnSet(Holds, HeldBy(u))' = SumFunctionOnSet(Holds, HeldBy(u))
               /\ SumFunctionOnSet(Overruns, Of(u))' = SumFunctionOnSet(Overruns, Of(u))
    BY <1>1, UserSums
  <1> HIDE DEF SideTypes, Of, HeldBy, Holds, Overruns, OnceReleased
  <1>4. SpendAddsUp'
    BY <1>3 DEF Money, SpendAddsUp, ledger
  <1>5. HoldsAddUp'
    BY <1>2, <1>3 DEF Money, HoldsAddUp, ledger
  <1>6. CapIsKept'
    BY <1>2, <1>3 DEF Money, CapIsKept, ledger
  <1> QED BY <1>4, <1>5, <1>6 DEF Money

\* A hold that fits.
LEMMA HoldMoney ==
  ASSUME SideTypes, SideTypes', NEW r \in Requests, StepOf(r), Money,
         TakesHold(r), UNCHANGED <<spend, charges, releases, billed, user>>,
         billed[r] = 0, releases[r] = 0, ~handle[r].reserved
  PROVE  Money'
  <1>1. PICK e : e = Estimate(local[r].route, local[r].price, local[r].want)
    OBVIOUS
  <1>2. /\ user[r] \in Budgeted /\ Fits(user[r], e)
        /\ handle'[r].estimate = e /\ handle'[r].reserved
        /\ reserved' = [reserved EXCEPT ![user[r]] = @ + e]
    <2>1. handle'[r] = [reserved |-> TRUE, estimate |-> e]
      BY <1>1 DEF TakesHold, SideTypes, TypeOK
    <2> QED BY <1>1, <2>1 DEF TakesHold
  <1>3. e \in Nat
    BY <1>2 DEF SideTypes, TypeOK, Handles
  <1>4. Outstanding(r)' /\ ~Outstanding(r)
    BY <1>2 DEF Outstanding
  <1>5. Budgeted \subseteq Users /\ Cap \in Nat
    BY SideRoutesAssumption
  <1>6. \A u \in Users : spend[u] \in Nat /\ reserved[u] \in Nat
    BY DEF SideTypes, TypeOK
  <1>7. \A u : OnceReleased(u)' => OnceReleased(u)
    BY DEF OnceReleased
  <1>8. \A u \in Users : reserved'[u] = IF u = user[r] THEN reserved[u] + e ELSE reserved[u]
    BY <1>2 DEF SideTypes, TypeOK
  <1> HIDE DEF SideTypes, Of, HeldBy, Holds, Overruns, OnceReleased
  <1>9. \A u : /\ SumFunctionOnSet(billed, Of(u))' = SumFunctionOnSet(billed, Of(u))
               /\ SumFunctionOnSet(Overruns, Of(u))' = SumFunctionOnSet(Overruns, Of(u))
               /\ SumFunctionOnSet(Overruns, Of(u)) \in Nat
    <2> TAKE u
    <2>1. /\ Zero(Of(u), billed, r)' = Zero(Of(u), billed, r)
          /\ Zero(Of(u), Overruns, r)' = Zero(Of(u), Overruns, r) /\ Zero(Of(u), Overruns, r) = 0
      <3>1. handle[r].estimate \in Nat
        BY DEF SideTypes, TypeOK, Handles
      <3> QED BY <1>2, <1>3, <3>1, ZerosOf, ZerosOfNext DEF Monus
    <2> QED BY <2>1, UserSums
  <1>10. ASSUME NEW u
         PROVE  SumFunctionOnSet(Holds, HeldBy(u))' =
                  SumFunctionOnSet(Holds, HeldBy(u)) + (IF u = user[r] THEN e ELSE 0)
    <2>1. /\ Zero(HeldBy(u), Holds, r) = 0
          /\ Zero(HeldBy(u), Holds, r)' = IF u = user[r] THEN e ELSE 0
      BY <1>2, <1>4, ZerosOf, ZerosOfNext
    <2>2. PICK n \in Nat : /\ SumFunctionOnSet(Holds, HeldBy(u)) = Zero(HeldBy(u), Holds, r) + n
                           /\ SumFunctionOnSet(Holds, HeldBy(u))' = Zero(HeldBy(u), Holds, r)' + n
      BY UserSums
    <2> QED BY <1>3, <2>1, <2>2
  <1>11. SpendAddsUp'
    BY <1>9 DEF Money, SpendAddsUp
  <1>12. HoldsAddUp'
    <2> SUFFICES ASSUME NEW u \in Budgeted, OnceReleased(u)'
                 PROVE  reserved'[u] = SumFunctionOnSet(Holds, HeldBy(u))'
      BY DEF HoldsAddUp
    <2>1. reserved[u] = SumFunctionOnSet(Holds, HeldBy(u))
      BY <1>7 DEF Money, HoldsAddUp
    <2> QED BY <1>3, <1>5, <1>6, <1>8, <1>10, <2>1
  <1>13. CapIsKept'
    <2> SUFFICES ASSUME NEW u \in Budgeted, OnceReleased(u)'
                 PROVE  spend'[u] + reserved'[u] <= Cap + SumFunctionOnSet(Overruns, Of(u))'
      BY DEF CapIsKept
    <2>1. CASE u = user[r]
      <3>1. spend[u] + reserved[u] + e <= Cap
        BY <1>2, <2>1 DEF Fits
      <3> QED BY <1>3, <1>5, <1>6, <1>8, <1>9, <2>1, <3>1
    <2>2. CASE u # user[r]
      BY <1>5, <1>7, <1>8, <1>9, <2>2 DEF Money, CapIsKept
    <2> QED BY <2>1, <2>2
  <1> QED BY <1>11, <1>12, <1>13 DEF Money

\* A hold that is given back, with what the request costs.
LEMMA SettleMoney ==
  ASSUME SideTypes, SideTypes', NEW r \in Requests, StepOf(r), Money, NEW c \in Nat,
         user[r] \in Users, HeldRight(r), Release(r), UNCHANGED <<handle, user>>,
         spend' = [spend EXCEPT ![user[r]] = @ + c], billed' = [billed EXCEPT ![r] = @ + c],
         c = 0 \/ (billed[r] = 0 /\ releases[r] = 0)
  PROVE  Money'
  <1>1. PICK e : e = handle[r].estimate
    OBVIOUS
  <1>2. e \in Nat /\ billed[r] \in Nat /\ billed'[r] = billed[r] + c /\ releases[r] \in Nat
    BY <1>1 DEF SideTypes, TypeOK, Handles
  <1>3. Budgeted \subseteq Users /\ Cap \in Nat
    BY SideRoutesAssumption
  <1>4. \A u \in Users : /\ spend[u] \in Nat /\ reserved[u] \in Nat
                         /\ spend'[u] = spend[u] + (IF u = user[r] THEN c ELSE 0)
    BY DEF SideTypes, TypeOK
  <1>5. /\ handle[r].reserved => /\ reserved' = [reserved EXCEPT ![user[r]] = Monus(@, e)]
                                 /\ releases'[r] = releases[r] + 1
        /\ ~handle[r].reserved => e = 0 /\ reserved' = reserved /\ releases' = releases
    BY <1>1 DEF Release, HeldRight, SideTypes
  <1>6. \A u \in Users : reserved'[u] = IF u = user[r] /\ handle[r].reserved
                                        THEN Monus(reserved[u], e) ELSE reserved[u]
    BY <1>5 DEF SideTypes, TypeOK
  <1>7. ASSUME NEW u, OnceReleased(u)'
        PROVE  OnceReleased(u) /\ (u = user[r] /\ handle[r].reserved => releases[r] = 0)
    <2>1. \A q \in Requests : releases'[q] <= 1 => releases[q] <= 1
      <3>1. \A q \in Requests : q # r => releases'[q] = releases[q]
        BY DEF StepOf, Keeps
      <3> QED BY <1>2, <1>5, <3>1
    <2>2. u = user[r] /\ handle[r].reserved => releases'[r] <= 1
      BY <1>7 DEF OnceReleased
    <2> QED BY <1>2, <1>5, <1>7, <2>1, <2>2 DEF OnceReleased
  <1>8. /\ Outstanding(r) <=> handle[r].reserved /\ releases[r] = 0
        /\ ~Outstanding(r)'
    <2>1. Outstanding(r)' <=> handle[r].reserved /\ releases'[r] = 0
      BY DEF Outstanding
    <2> QED BY <1>2, <1>5, <2>1 DEF Outstanding
  <1> HIDE DEF SideTypes, Of, HeldBy, Holds, Overruns, OnceReleased
  <1>9. SpendAddsUp'
    <2> SUFFICES ASSUME NEW u \in Users PROVE spend'[u] = SumFunctionOnSet(billed, Of(u))'
      BY DEF SpendAddsUp
    <2>1. PICK n \in Nat : /\ SumFunctionOnSet(billed, Of(u)) = Zero(Of(u), billed, r) + n
                           /\ SumFunctionOnSet(billed, Of(u))' = Zero(Of(u), billed, r)' + n
      BY UserSums
    <2>2. spend[u] = SumFunctionOnSet(billed, Of(u))
      BY DEF Money, SpendAddsUp
    <2>3. /\ Zero(Of(u), billed, r) = IF user[r] = u THEN billed[r] ELSE 0
          /\ Zero(Of(u), billed, r)' = IF user[r] = u THEN billed'[r] ELSE 0
      BY ZerosOf, ZerosOfNext
    <2> QED BY <1>2, <1>4, <2>1, <2>2, <2>3
  <1>10. ASSUME NEW u \in Budgeted, OnceReleased(u)'
         PROVE  /\ reserved'[u] = SumFunctionOnSet(Holds, HeldBy(u))'
                /\ reserved'[u] = reserved[u] - (IF u = user[r] THEN e ELSE 0)
    <2>1. PICK n \in Nat : /\ SumFunctionOnSet(Holds, HeldBy(u)) = Zero(HeldBy(u), Holds, r) + n
                           /\ SumFunctionOnSet(Holds, HeldBy(u))' = Zero(HeldBy(u), Holds, r)' + n
      BY UserSums
    <2>2. reserved[u] = SumFunctionOnSet(Holds, HeldBy(u))
      BY <1>7, <1>10 DEF Money, HoldsAddUp
    <2>3. /\ Zero(HeldBy(u), Holds, r) = IF user[r] = u /\ handle[r].reserved THEN e ELSE 0
          /\ Zero(HeldBy(u), Holds, r)' = 0
      BY <1>1, <1>7, <1>8, <1>10, ZerosOf, ZerosOfNext
    <2>4. reserved'[u] = IF u = user[r] /\ handle[r].reserved THEN Monus(reserved[u], e) ELSE reserved[u]
      BY <1>3, <1>6
    <2>5. reserved[u] \in Nat
      BY <1>3, <1>4
    <2> QED BY <1>2, <1>5, <2>1, <2>2, <2>3, <2>4, <2>5 DEF Monus
  <1>11. CapIsKept'
    <2> SUFFICES ASSUME NEW u \in Budgeted, OnceReleased(u)'
                 PROVE  spend'[u] + reserved'[u] <= Cap + SumFunctionOnSet(Overruns, Of(u))'
      BY DEF CapIsKept
    <2>1. PICK n \in Nat : /\ SumFunctionOnSet(Overruns, Of(u)) = Zero(Of(u), Overruns, r) + n
                           /\ SumFunctionOnSet(Overruns, Of(u))' = Zero(Of(u), Overruns, r)' + n
      BY UserSums
    <2>2. spend[u] + reserved[u] <= Cap + SumFunctionOnSet(Overruns, Of(u))
      BY <1>7 DEF Money, CapIsKept
    <2>3. /\ Zero(Of(u), Overruns, r) = IF user[r] = u THEN Monus(billed[r], e) ELSE 0
          /\ Zero(Of(u), Overruns, r)' = IF user[r] = u THEN Monus(billed[r] + c, e) ELSE 0
      BY <1>1, <1>2, ZerosOf, ZerosOfNext
    <2>4. spend[u] \in Nat /\ reserved[u] \in Nat /\ spend'[u] = spend[u] + (IF u = user[r] THEN c ELSE 0)
      BY <1>3, <1>4
    <2> QED BY <1>2, <1>3, <1>10, <2>1, <2>2, <2>3, <2>4 DEF Monus
  <1> QED BY <1>9, <1>10, <1>11 DEF Money, HoldsAddUp

LEMMA RefundMoney ==
  ASSUME SideTypes, SideTypes', NEW r \in Requests, StepOf(r), Money,
         user[r] \in Users, HeldRight(r), Refunded(r), UNCHANGED <<handle, user>>
  PROVE  Money'
  <1>1. /\ Release(r)
        /\ spend' = [spend EXCEPT ![user[r]] = @ + 0] /\ billed' = [billed EXCEPT ![r] = @ + 0]
    BY DEF Refunded, SideTypes, TypeOK
  <1> QED BY <1>1, SettleMoney

LEMMA ReconcileMoney ==
  ASSUME SideTypes, SideTypes', NEW r \in Requests, StepOf(r), Money,
         user[r] \in Users, HeldRight(r), Reconciled(r), UNCHANGED <<handle, user>>,
         billed[r] = 0, releases[r] = 0
  PROVE  Money'
  <1>1. cost[r] \in Nat
    BY DEF SideTypes, TypeOK
  <1> QED BY <1>1, SettleMoney DEF Reconciled

-----------------------------------------------------------------------------
(***************************************************************************)
(* The steps.                                                              *)
(***************************************************************************)

Good(r) == SideTypes' /\ StepOf(r) /\ Own(r)' /\ Money'

LEMMA AtRequest ==
  ASSUME SideInv, NEW r \in Requests
  PROVE  /\ pc[r] \in PCs /\ local[r] \in Locals /\ user[r] \in Users \cup {NoUser}
         /\ handle[r] \in Handles /\ cost[r] \in Nat /\ rows[r] \in SUBSET {"success", "error"}
         /\ job[r] \in {"none", "running", "done", "cancelled"} /\ mishaps[r] \in SUBSET Faults
         /\ charges[r] \in Nat /\ releases[r] \in Nat /\ billed[r] \in Nat
         /\ SideTypes /\ Own(r) /\ Money
  BY DEF SideInv, Money, SideTypes, TypeOK

LEMMA QuietIsGood ==
  ASSUME SideInv, NEW r \in Requests, SideTypes', StepOf(r), Own(r)', UNCHANGED ledger,
         handle'[r] = handle[r],
         user'[r] = user[r] \/ (billed[r] = 0 /\ releases[r] = 0 /\ ~handle[r].reserved)
  PROVE  Good(r)
  BY AtRequest, QuietMoney DEF Good

\* The steps of r after which it is at l, with nothing but its place, its local
\* variables and its cost changed.
LEMMA GoesIsGood ==
  ASSUME SideInv, NEW r \in Requests, NEW l \in PCs \ {"idle"}, Goto(r, l),
         UNCHANGED <<inputs, handle, answer, ledger, leftover, mishaps>>,
         local' \in [Requests -> Locals], \A q \in Requests : q # r => local'[q] = local[q],
         cost' \in [Requests -> Nat], \A q \in Requests : q # r => cost'[q] = cost[q],
         pc[r] \in AtMoney /\ l \in AtMoney,
         Placed(r)',
         l \in {"pricing", "reserve"} => ~handle[r].reserved,
         l = "selector" => handle[r].estimate = 0 /\ (local'[r].route \in Priced => ~handle[r].reserved),
         l = "upload" => handle[r].estimate = 0,
         l \in Uncalled => cost'[r] = 0,
         pc[r] \in Unsettled \ {"reconcile"} /\ l # "reconcile"
  PROVE  Good(r)
  <1>1. /\ pc'[r] = l
        /\ \A q \in Requests : q # r => pc'[q] = pc[q]
        /\ pc' \in [Requests -> PCs]
    BY DEF Goto, SideInv, SideTypes, TypeOK
  <1>2. SideTypes'
    BY <1>1 DEF SideInv, SideTypes, TypeOK, inputs, ledger, leftover
  <1>3. StepOf(r)
    BY <1>1 DEF StepOf, Keeps, inputs, ledger, leftover
  <1>4. HeldRight(r)'
    BY <1>1, AtRequest DEF Own, HeldRight, AtMoney, AtBatch, inputs
  <1>5. SettledRight(r)'
    BY <1>1, AtRequest DEF Own, SettledRight, Uncalled, Unsettled, AtMoney, AtBatch, ledger, leftover
  <1>6. CleanedUp(r)'
    BY <1>1, AtRequest DEF Own, CleanedUp, AtMoney, leftover
  <1>7. UNCHANGED ledger /\ handle'[r] = handle[r] /\ user'[r] = user[r]
    BY DEF inputs
  <1> QED BY <1>2, <1>3, <1>4, <1>5, <1>6, <1>7, QuietIsGood DEF Own

\* The handler is over: what it leaves behind has its cause among the faults met.
LEMMA EndsIsGood ==
  ASSUME SideInv, NEW r \in Requests, NEW how \in {"served", "error", "gone"}, NEW fs \in SUBSET Faults,
         Ends(r, how, fs), UNCHANGED <<inputs, handle, cost, ledger, rows>>, pc[r] # "over",
         handle[r].reserved /\ handle[r].estimate > 0 => fs \cap {"cancel", "database", "log"} # {},
         pc[r] \in {"reconcile", "logBatch"} => "cancel" \in fs,
         files' \subseteq Requests, \A q \in Requests : q # r /\ q \in files' => q \in files,
         r \in files' => "disk" \in fs \cup mishaps[r],
         job' \in [Requests -> {"none", "running", "done", "cancelled"}],
         \A q \in Requests : q # r /\ job'[q] # "none" => job[q] # "none",
         job'[r] # "none" => job[r] # "none" \/ "cancel" \in fs
  PROVE  Good(r)
  <1>1. /\ pc'[r] = "over" /\ local'[r] = NoLocal /\ answer'[r] = how /\ mishaps'[r] = mishaps[r] \cup fs
        /\ \A q \in Requests : q # r => /\ pc'[q] = pc[q] /\ local'[q] = local[q]
                                        /\ answer'[q] = answer[q] /\ mishaps'[q] = mishaps[q]
    BY DEF Ends, Forget, Goto, SideInv, SideTypes, TypeOK
  <1>2. NoLocal \in Locals /\ NoLocal.route = "none"
    BY SideRoutesAssumption DEF NoLocal, Locals
  <1>3. SideTypes'
    BY <1>2 DEF Ends, Forget, Goto, PCs, SideInv, SideTypes, TypeOK, inputs, ledger
  <1>4. StepOf(r)
    BY <1>1 DEF StepOf, Keeps, inputs, ledger
  <1>5. HeldRight(r)'
    BY <1>1, AtRequest DEF Own, HeldRight, Outstanding, AtMoney, AtBatch, inputs, ledger
  <1>6. SettledRight(r)'
    <2> USE <1>1, AtRequest DEF Own, SettledRight, Unsettled, Uncalled, AtBatch, inputs, ledger
    <2>1. releases'[r] > 1 => "database" \in mishaps'[r]
      OBVIOUS
    <2>2. billed'[r] > 0 => "success" \in rows'[r] /\ charges'[r] = 1 /\ billed'[r] = cost'[r]
                            /\ user'[r] \in Users
      OBVIOUS
    <2>3. "success" \in rows'[r] /\ billed'[r] < cost'[r] => mishaps'[r] # {}
      BY DEF PCs
    <2> QED BY <2>1, <2>2, <2>3
  <1>7. CleanedUp(r)'
    BY <1>1, AtRequest DEF Own, CleanedUp, inputs, ledger
  <1>8. UNCHANGED ledger /\ handle'[r] = handle[r] /\ user'[r] = user[r]
    BY DEF inputs
  <1>9. Placed(r)'
    BY <1>1, <1>2 DEF Placed, Audio
  <1> QED BY <1>3, <1>4, <1>5, <1>6, <1>7, <1>8, <1>9, QuietIsGood DEF Own

\* What the three ledger steps write.
LEMMA HoldWrites ==
  ASSUME SideInv, NEW r \in Requests, TakesHold(r), local[r].route \in Settling
  PROVE  /\ handle'[r].reserved
         /\ handle'[r] \in Handles /\ handle' \in [Requests -> Handles]
         /\ local[r].route \in Audio => handle'[r].estimate = 0
         /\ \A q \in Requests : q # r => handle'[q] = handle[q]
         /\ reserved' \in [Users -> Nat] /\ user[r] \in Budgeted
  <1>1. PICK e : e = Estimate(local[r].route, local[r].price, local[r].want)
    OBVIOUS
  <1>2. e \in Nat /\ (local[r].price = NoPrice => e = 0)
    BY <1>1, AtRequest, EstimateIs DEF Locals
  <1>3. /\ handle' = [handle EXCEPT ![r] = [reserved |-> TRUE, estimate |-> e]]
        /\ reserved' = [reserved EXCEPT ![user[r]] = @ + e] /\ user[r] \in Budgeted
    BY <1>1 DEF TakesHold
  <1>4. reserved' \in [Users -> Nat]
    BY <1>2, <1>3, SideRoutesAssumption DEF SideInv, SideTypes, TypeOK
  <1>5. handle'[r] = [reserved |-> TRUE, estimate |-> e]
    BY <1>3 DEF SideInv, SideTypes, TypeOK
  <1>6. handle' \in [Requests -> Handles]
    BY <1>2, <1>3 DEF SideInv, SideTypes, TypeOK, Handles
  <1>7. local[r].route \in Audio => local[r].price = NoPrice
    BY AtRequest DEF Own, Placed
  <1> QED BY <1>2, <1>3, <1>4, <1>5, <1>6, <1>7 DEF SideInv, SideTypes, TypeOK

LEMMA ReleaseWrites ==
  ASSUME SideInv, NEW r \in Requests, user[r] \in Users, Release(r)
  PROVE  /\ reserved' \in [Users -> Nat] /\ releases' \in [Requests -> Nat]
         /\ \A q \in Requests : q # r => releases'[q] = releases[q]
         /\ releases'[r] = releases[r] + (IF handle[r].reserved THEN 1 ELSE 0)
  <1>1. PICK e \in Nat : e = handle[r].estimate
    BY AtRequest DEF Handles
  <1>2. CASE handle[r].reserved = TRUE
    <2>1. /\ reserved' = [reserved EXCEPT ![user[r]] = Monus(@, e)]
          /\ releases' = [releases EXCEPT ![r] = @ + 1]
      BY <1>1, <1>2 DEF Release
    <2> QED BY <1>1, <1>2, <2>1 DEF SideInv, SideTypes, TypeOK, Monus
  <1>3. CASE handle[r].reserved = FALSE
    BY <1>3 DEF Release, SideInv, SideTypes, TypeOK
  <1> QED BY <1>2, <1>3, AtRequest DEF Handles

LEMMA ReconcileWrites ==
  ASSUME SideInv, NEW r \in Requests, user[r] \in Users, Reconciled(r)
  PROVE  /\ spend' \in [Users -> Nat] /\ charges' \in [Requests -> Nat] /\ billed' \in [Requests -> Nat]
         /\ \A q \in Requests : q # r => charges'[q] = charges[q] /\ billed'[q] = billed[q]
         /\ charges'[r] = charges[r] + 1 /\ billed'[r] = billed[r] + cost[r]
  BY DEF Reconciled, SideInv, SideTypes, TypeOK

-----------------------------------------------------------------------------
(***************************************************************************)
(* The settling routes.                                                    *)
(***************************************************************************)

\* A step that only fails, at an await where nothing positive is held.
LEMMA FailsIsGood ==
  ASSUME SideInv, NEW r \in Requests, NEW how \in {"served", "error"}, Ends(r, how, {}),
         UNCHANGED <<inputs, handle, cost, ledger, leftover>>,
         pc[r] \in {"idle", "selector", "reserve", "upload", "atProvider"}
  PROVE  Good(r)
  <1>1. handle[r].reserved => handle[r].estimate = 0
    BY AtRequest DEF Own, HeldRight, AtBatch
  <1>2. r \in files => "disk" \in mishaps[r]
    BY AtRequest DEF Own, CleanedUp
  <1>3. handle[r].reserved /\ handle[r].estimate > 0 => {} \cap {"cancel", "database", "log"} # {}
    BY <1>1
  <1>4. pc[r] # "over" /\ pc[r] \notin {"reconcile", "logBatch"}
    OBVIOUS
  <1>5. files' = files /\ job' = job /\ rows' = rows /\ files \subseteq Requests
        /\ job \in [Requests -> {"none", "running", "done", "cancelled"}]
    BY DEF leftover, SideInv, SideTypes, TypeOK
  <1> QED BY <1>2, <1>3, <1>4, <1>5, EndsIsGood

LEMMA BeginKeeps ==
  ASSUME SideInv, NEW r \in Requests, NEW rt \in Settling, NEW k \in Users \cup {NoUser, Master},
         NEW named \in Users \cup {NoUser}, Begin(r, rt, k, named)
  PROVE  Good(r)
  <1>1. CASE Ends(r, "error", {}) /\ UNCHANGED <<key, user>>
    BY <1>1, FailsIsGood DEF Begin, inputs
  <1>2. CASE \E reject \in BOOLEAN :
               /\ ResolveUser(k, named, reject) # NoUser
               /\ user' = [user EXCEPT ![r] = ResolveUser(k, named, reject)]
               /\ key' = [key EXCEPT ![r] = k]
               /\ local' = [local EXCEPT ![r].route = rt]
               /\ Proceeds(r, Head(Handler[rt].steps))
    <2>1. PICK u : /\ u \in Users /\ (k = Master \/ k = u)
                   /\ user' = [user EXCEPT ![r] = u] /\ key' = [key EXCEPT ![r] = k]
                   /\ local' = [local EXCEPT ![r].route = rt]
                   /\ Proceeds(r, Head(Handler[rt].steps))
      BY <1>2, SideRoutesAssumption DEF ResolveUser
    <2>2. /\ pc[r] = "idle" /\ local[r] = NoLocal /\ NoLocal \in Locals
          /\ UNCHANGED <<handle, cost, ledger, leftover>>
      BY AtRequest, SideRoutesAssumption DEF Begin, Own, Placed, NoLocal, Locals
    <2>3. /\ local' \in [Requests -> Locals] /\ local'[r].route = rt /\ local'[r].price = NoPrice
          /\ \A q \in Requests : q # r => local'[q] = local[q]
      <3>1. \A x \in Locals : LET y == [x EXCEPT !.route = rt] IN
              y \in Locals /\ y.route = rt /\ y.price = x.price
        BY DEF Locals
      <3>2. NoLocal.price = NoPrice
        BY DEF NoLocal
      <3>3. PICK v : v = [NoLocal EXCEPT !.route = rt]
        OBVIOUS
      <3>4. v \in Locals /\ v.route = rt /\ v.price = NoPrice
        <4> HIDE DEF NoLocal
        <4> QED BY <2>2, <3>1, <3>2, <3>3
      <3>5. local' = [local EXCEPT ![r] = v]
        BY <2>1, <2>2, <3>3
      <3> QED BY <3>4, <3>5 DEF SideInv, SideTypes, TypeOK
    <2>4. PICK l \in {"selector", "reserve"} : l = Head(Handler[rt].steps) /\ (l = "selector" <=> rt \in Priced)
      <3>1. Head(Handler[rt].steps) = IF rt \in Audio THEN "reserve" ELSE "selector"
        BY DEF Handler, Settling, Audio, create_embedding, create_rerank, create_moderation,
               create_image, create_transcription, create_speech
      <3> QED BY <3>1 DEF Priced
    <2>5. /\ pc' = [pc EXCEPT ![r] = l] /\ UNCHANGED <<answer, mishaps>>
      BY <2>1, <2>4 DEF Proceeds, Goto
    <2>6. SideTypes'
      BY <2>1, <2>2, <2>3, <2>5 DEF SideInv, SideTypes, TypeOK, PCs, ledger, leftover
    <2>7. StepOf(r)
      BY <2>1, <2>2, <2>3, <2>5 DEF SideInv, SideTypes, TypeOK, StepOf, Keeps, ledger, leftover
    <2>8. pc'[r] = l /\ user'[r] = u /\ key'[r] = k
      BY <2>1, <2>5 DEF SideInv, SideTypes, TypeOK
    <2>9. handle[r] \in Handles /\ ~handle[r].reserved /\ handle[r].estimate = 0
          /\ billed[r] = 0 /\ releases[r] = 0
      BY <2>2, AtRequest DEF Own, HeldRight, SettledRight, Unsettled, PCs
    <2>10. Placed(r)'
      BY <2>3, <2>8 DEF Placed, Priced
    <2>11. HeldRight(r)'
      BY <2>1, <2>2, <2>8, <2>9 DEF HeldRight, AtBatch
    <2>12. SettledRight(r)'
      BY <2>2, <2>8, AtRequest DEF Own, SettledRight, Unsettled, Uncalled, PCs, AtBatch, ledger, leftover
    <2>13. CleanedUp(r)'
      BY <2>2, <2>5, <2>8, AtRequest DEF Own, CleanedUp, leftover
    <2> QED BY <2>2, <2>6, <2>7, <2>9, <2>10, <2>11, <2>12, <2>13, QuietIsGood DEF Own
  <1> QED BY <1>1, <1>2 DEF Begin

\* A step to the one that follows, with nothing held by it.
LEMMA MovesIsGood ==
  ASSUME SideInv, NEW r \in Requests, Goes(r, Following(r)),
         UNCHANGED <<inputs, handle, cost, ledger, leftover>>,
         pc[r] \in {"selector", "reserve", "gate", "upload"}
  PROVE  Good(r)
  <1>1. PICK l : l = Following(r)
    OBVIOUS
  <1>2. /\ local[r].route \in Settling
        /\ pc[r] = "gate" => local[r].route \in Priced \ {"moderations"}
        /\ pc[r] = "upload" => local[r].route = "transcription"
    BY AtRequest DEF Own, Placed, Priced, Settling
  <1>3. \/ local[r].route \in Priced /\ l = "pricing" /\ ~handle[r].reserved
        \/ local[r].route = "transcription" /\ l = "upload" /\ handle[r].estimate = 0
        \/ local[r].route \in Audio /\ l = "selector" /\ handle[r].estimate = 0
        \/ local[r].route \in Priced \ {"moderations"} /\ l = "gate"
        \/ l = "call"
    BY <1>1, <1>2, FollowingIs, AtRequest DEF Own, HeldRight, Settling, Priced, Audio
  <1>4. cost[r] = 0 /\ (local[r].route \in Audio => local[r].price = NoPrice)
    BY AtRequest DEF Own, Placed, SettledRight, Uncalled
  <1>5. Goto(r, l) /\ UNCHANGED <<inputs, local, handle, cost, answer, ledger, leftover, mishaps>>
    BY <1>1 DEF Goes, Proceeds
  <1>6. pc'[r] = l /\ l \in {"pricing", "upload", "selector", "gate", "call"}
    BY <1>3, <1>5 DEF Goto, SideInv, SideTypes, TypeOK
  <1>7. Placed(r)'
    BY <1>2, <1>3, <1>4, <1>5, <1>6 DEF Placed
  <1>8. l \in PCs \ {"idle"} /\ l \in AtMoney /\ pc[r] \in AtMoney
    BY <1>6 DEF PCs, AtMoney
  <1>9. /\ local' \in [Requests -> Locals] /\ \A q \in Requests : q # r => local'[q] = local[q]
        /\ cost' \in [Requests -> Nat] /\ \A q \in Requests : q # r => cost'[q] = cost[q]
        /\ cost'[r] = 0 /\ local'[r] = local[r]
    BY <1>4, <1>5 DEF SideInv, SideTypes, TypeOK
  <1>10. /\ l \in {"pricing", "reserve"} => ~handle[r].reserved
         /\ l = "selector" => handle[r].estimate = 0 /\ (local'[r].route \in Priced => ~handle[r].reserved)
         /\ l = "upload" => handle[r].estimate = 0
    BY <1>3, <1>9 DEF Priced
  <1>11. pc[r] \in Unsettled \ {"reconcile"} /\ l # "reconcile"
    BY <1>6 DEF Unsettled, PCs
  <1> HIDE DEF SideInv, Good
  <1> QED BY <1>5, <1>7, <1>8, <1>9, <1>10, <1>11, GoesIsGood

LEMMA SelectorKeeps ==
  ASSUME SideInv, NEW r \in Requests, ResolveSelector(r)
  PROVE  Good(r)
  BY FailsIsGood, MovesIsGood DEF ResolveSelector

LEMMA ReadPriceKeeps ==
  ASSUME SideInv, NEW r \in Requests, ReadPrice(r)
  PROVE  Good(r)
  <1>1. PICK p \in Prices \cup {NoPrice}, n \in 0..MaxUnits, b \in BOOLEAN :
               local' = [local EXCEPT ![r].price = p, ![r].want = n, ![r].free = b]
    <2>1. \A p, named : (p = 0 /\ ~named) \in BOOLEAN
      OBVIOUS
    <2> QED BY <2>1 DEF ReadPrice
  <1>2. \A x \in Locals : LET y == [x EXCEPT !.price = p, !.want = n, !.free = b] IN
          y \in Locals /\ y.route = x.route
    BY DEF Locals
  <1>3. /\ local' \in [Requests -> Locals] /\ local'[r].route = local[r].route
        /\ \A q \in Requests : q # r => local'[q] = local[q]
    BY <1>1, <1>2, AtRequest DEF SideInv, SideTypes, TypeOK
  <1>4. /\ pc[r] = "pricing" /\ local[r].route \in Priced
        /\ UNCHANGED <<inputs, handle, cost, ledger, leftover>>
        /\ ~handle[r].reserved /\ cost[r] = 0
    BY AtRequest DEF ReadPrice, Own, Placed, HeldRight, SettledRight, Uncalled
  <1>5. Following(r) = "reserve"
    BY <1>4, FollowingIs DEF Priced
  <1>6. Goto(r, "reserve") /\ UNCHANGED <<answer, mishaps>>
    BY <1>5 DEF ReadPrice, Proceeds
  <1>7. pc'[r] = "reserve"
    BY <1>6 DEF Goto, SideInv, SideTypes, TypeOK
  <1>8. Placed(r)'
    BY <1>3, <1>4, <1>7 DEF Placed, Priced
  <1>9. cost' \in [Requests -> Nat] /\ cost'[r] = 0 /\ \A q \in Requests : q # r => cost'[q] = cost[q]
    BY <1>4 DEF SideInv, SideTypes, TypeOK
  <1> HIDE DEF SideInv, Good
  <1> QED BY <1>3, <1>4, <1>6, <1>8, <1>9, GoesIsGood DEF AtMoney, Unsettled, PCs

LEMMA PriceGateKeeps ==
  ASSUME SideInv, NEW r \in Requests, PriceGate(r)
  PROVE  Good(r)
  <1>1. pc[r] = "gate" /\ UNCHANGED <<inputs, handle, cost, ledger, leftover>>
    BY DEF PriceGate
  <1>2. CASE Goes(r, Following(r))
    BY <1>1, <1>2, MovesIsGood
  <1>3. CASE Goes(r, "refund")
    <2>1. Goto(r, "refund") /\ UNCHANGED <<local, answer, mishaps>>
      BY <1>3 DEF Goes, Proceeds
    <2>2. pc'[r] = "refund"
      BY <2>1 DEF Goto, SideInv, SideTypes, TypeOK
    <2>3. Placed(r)'
      BY <2>1, <2>2, AtRequest DEF Own, Placed
    <2>4. /\ local' \in [Requests -> Locals] /\ \A q \in Requests : q # r => local'[q] = local[q]
          /\ cost' \in [Requests -> Nat] /\ \A q \in Requests : q # r => cost'[q] = cost[q]
      BY <1>1, <2>1 DEF SideInv, SideTypes, TypeOK
    <2> HIDE DEF SideInv, Good
    <2> QED BY <1>1, <2>1, <2>3, <2>4, GoesIsGood DEF AtMoney, Unsettled, Uncalled, PCs
  <1> QED BY <1>2, <1>3 DEF PriceGate

LEMMA ReadUploadKeeps ==
  ASSUME SideInv, NEW r \in Requests, ReadUpload(r)
  PROVE  Good(r)
  BY FailsIsGood, MovesIsGood DEF ReadUpload

\* The budget takes the hold, and its request goes on.
LEMMA HoldKeeps ==
  ASSUME SideInv, NEW r \in Requests, ReserveBudget(r), TakesHold(r), Goes(r, Following(r))
  PROVE  Good(r)
  <1>1. /\ pc[r] = "reserve" /\ local[r].route \in Settling
        /\ UNCHANGED <<inputs, cost, spend, charges, releases, billed, leftover, local, answer, mishaps>>
    BY AtRequest DEF ReserveBudget, Own, Placed, Goes, Proceeds
  <1>2. PICK l : l = Following(r)
    OBVIOUS
  <1>3. \/ l = "selector" /\ local[r].route \in Audio
        \/ l = "call"
        \/ l = "gate" /\ local[r].route \in Priced \ {"moderations"}
    BY <1>1, <1>2, FollowingIs DEF Priced
  <1>4. pc' = [pc EXCEPT ![r] = l]
    BY <1>2 DEF Goes, Proceeds, Goto
  <1>5. /\ handle'[r].reserved /\ handle' \in [Requests -> Handles]
        /\ local[r].route \in Audio => handle'[r].estimate = 0
        /\ \A q \in Requests : q # r => handle'[q] = handle[q]
        /\ reserved' \in [Users -> Nat] /\ user[r] \in Budgeted
    BY <1>1, HoldWrites
  <1>6. /\ SideTypes' /\ pc'[r] = l
        /\ \A q \in Requests : q # r => pc'[q] = pc[q]
    BY <1>1, <1>3, <1>4, <1>5 DEF SideInv, SideTypes, TypeOK, PCs, inputs, leftover
  <1>7. StepOf(r)
    BY <1>1, <1>5, <1>6 DEF StepOf, Keeps, inputs, leftover
  <1>8. billed[r] = 0 /\ releases[r] = 0 /\ ~handle[r].reserved /\ charges[r] = 0 /\ rows[r] = {}
        /\ cost[r] = 0
    BY <1>1, AtRequest DEF Own, HeldRight, SettledRight, Unsettled, Uncalled, PCs
  <1>9. Placed(r)'
    BY <1>1, <1>3, <1>6, AtRequest DEF Own, Placed
  <1>10. HeldRight(r)'
    BY <1>1, <1>3, <1>5, <1>6, AtRequest DEF Own, HeldRight, AtBatch, AtMoney, Priced, inputs
  <1>11. SettledRight(r)'
    BY <1>1, <1>3, <1>6, <1>8 DEF SettledRight, leftover
  <1>12. CleanedUp(r)'
    BY <1>1, <1>3, <1>6, AtRequest DEF Own, CleanedUp, leftover
  <1>13. Money'
    BY <1>1, <1>6, <1>7, <1>8, AtRequest, HoldMoney DEF inputs
  <1> QED BY <1>6, <1>7, <1>9, <1>10, <1>11, <1>12, <1>13 DEF Good, Own

\* The budget takes the hold, and its request is over without it.
LEMMA LostHoldKeeps ==
  ASSUME SideInv, NEW r \in Requests, pc[r] = "reserve", TakesHold(r), NEW how \in {"error", "gone"},
         NEW fault \in {"database", "cancel"}, fault \in Faults, Ends(r, how, {fault}),
         UNCHANGED <<inputs, cost, spend, charges, releases, billed, leftover>>
  PROVE  Good(r)
  <1>1. /\ pc'[r] = "over" /\ local'[r] = NoLocal /\ mishaps'[r] = mishaps[r] \cup {fault}
        /\ \A q \in Requests : q # r => /\ pc'[q] = pc[q] /\ local'[q] = local[q]
                                        /\ answer'[q] = answer[q] /\ mishaps'[q] = mishaps[q]
    BY DEF Ends, Forget, Goto, SideInv, SideTypes, TypeOK
  <1>2. /\ handle'[r].reserved /\ handle' \in [Requests -> Handles]
        /\ \A q \in Requests : q # r => handle'[q] = handle[q]
        /\ reserved' \in [Users -> Nat] /\ user[r] \in Budgeted
    <2>1. local[r].route \in Settling
      BY AtRequest DEF Own, Placed
    <2> QED BY <2>1, HoldWrites
  <1>3. NoLocal \in Locals /\ NoLocal.route = "none"
    BY SideRoutesAssumption DEF NoLocal, Locals
  <1>4. SideTypes'
    BY <1>2, <1>3 DEF Ends, Forget, Goto, PCs, SideInv, SideTypes, TypeOK, inputs, leftover
  <1>5. StepOf(r)
    BY <1>1, <1>2 DEF StepOf, Keeps, inputs, leftover
  <1>6. billed[r] = 0 /\ releases[r] = 0 /\ ~handle[r].reserved /\ charges[r] = 0 /\ rows[r] = {}
    BY AtRequest DEF Own, HeldRight, SettledRight, Unsettled, PCs
  <1>7. Placed(r)'
    BY <1>1, <1>3 DEF Placed, Audio
  <1>8. HeldRight(r)'
    BY <1>1, <1>2, AtRequest DEF Own, HeldRight, AtBatch, AtMoney, inputs
  <1>9. SettledRight(r)'
    BY <1>1, <1>6 DEF SettledRight, Unsettled, Uncalled, AtBatch, leftover
  <1>10. CleanedUp(r)'
    BY <1>1, AtRequest DEF Own, CleanedUp, leftover
  <1>11. Money'
    BY <1>4, <1>5, <1>6, AtRequest, HoldMoney DEF inputs
  <1> QED BY <1>4, <1>5, <1>7, <1>8, <1>9, <1>10, <1>11 DEF Good, Own

LEMMA ReserveBudgetKeeps ==
  ASSUME SideInv, NEW r \in Requests, ReserveBudget(r)
  PROVE  Good(r)
  <1>1. /\ pc[r] = "reserve"
        /\ UNCHANGED <<inputs, cost, spend, charges, releases, billed, leftover>>
    BY DEF ReserveBudget
  <1>2. CASE Ends(r, "error", {}) /\ UNCHANGED <<handle, reserved>>
    BY <1>1, <1>2, FailsIsGood DEF ledger
  <1>3. CASE Goes(r, Following(r)) /\ UNCHANGED <<handle, reserved>>
    BY <1>1, <1>3, MovesIsGood DEF ledger
  <1>4. CASE TakesHold(r) /\ Goes(r, Following(r))
    BY <1>4, HoldKeeps
  <1>5. CASE Outside("database") /\ TakesHold(r) /\ Ends(r, "error", {"database"})
    BY <1>1, <1>5, LostHoldKeeps DEF Outside
  <1> QED BY <1>2, <1>3, <1>4, <1>5 DEF ReserveBudget

LEMMA CallProviderKeeps ==
  ASSUME SideInv, NEW r \in Requests, CallProvider(r)
  PROVE  Good(r)
  <1>1. /\ pc[r] = "call" /\ local' = [local EXCEPT ![r] = NoLocal]
        /\ UNCHANGED <<inputs, handle, ledger, leftover>>
        /\ local[r].route \in Settling
    BY AtRequest DEF CallProvider, Forget, Own, Placed
  <1>2. NoLocal \in Locals /\ NoLocal.route = "none"
    BY SideRoutesAssumption DEF NoLocal, Locals
  <1>3. PICK l \in {"logServed", "refund", "logFailed"} :
               Goto(r, l) /\ UNCHANGED <<answer, mishaps>>
    BY DEF CallProvider, Proceeds
  <1>4. cost' \in [Requests -> Nat] /\ \A q \in Requests : q # r => cost'[q] = cost[q]
    <2>1. CASE UNCHANGED cost
      BY <2>1 DEF SideInv, SideTypes, TypeOK
    <2>2. ASSUME NEW n \in Units,
                 cost' = [cost EXCEPT ![r] = Cost(local[r].route, local[r].price, local[r].want, n)]
          PROVE  cost' \in [Requests -> Nat] /\ \A q \in Requests : q # r => cost'[q] = cost[q]
      <3>1. Cost(local[r].route, local[r].price, local[r].want, n) \in Nat
        BY <1>1, AtRequest, CostIs DEF Locals
      <3> QED BY <2>2, <3>1 DEF SideInv, SideTypes, TypeOK
    <2> QED BY <2>1, <2>2 DEF CallProvider
  <1>5. pc'[r] = l /\ local'[r] = NoLocal
    BY <1>1, <1>3 DEF Goto, SideInv, SideTypes, TypeOK
  <1>6. Placed(r)'
    BY <1>2, <1>5 DEF Placed, Audio
  <1>7. local' \in [Requests -> Locals] /\ \A q \in Requests : q # r => local'[q] = local[q]
    BY <1>1, <1>2 DEF SideInv, SideTypes, TypeOK
  <1> HIDE DEF SideInv, Good
  <1> QED BY <1>1, <1>3, <1>4, <1>6, <1>7, GoesIsGood DEF AtMoney, Unsettled, Uncalled, PCs

\* A usage row that could be put, or not.
LEMMA PutWrites ==
  ASSUME SideInv, NEW r \in Requests, NEW kind \in {"success", "error"}, NEW next \in PCs, NEW raised \in PCs,
         PutRow(r, kind, next, raised)
  PROVE  /\ rows' \in [Requests -> SUBSET {"success", "error"}] /\ pc' \in [Requests -> PCs]
         /\ mishaps' \in [Requests -> SUBSET Faults]
         /\ \A q \in Requests : q # r => rows'[q] = rows[q] /\ pc'[q] = pc[q] /\ mishaps'[q] = mishaps[q]
         /\ \/ rows'[r] = rows[r] \cup {kind} /\ pc'[r] = next /\ mishaps'[r] = mishaps[r]
            \/ rows'[r] = rows[r] /\ pc'[r] = raised /\ mishaps'[r] = mishaps[r] \cup {"log"}
  BY DEF PutRow, Outside, Goto, SideInv, SideTypes, TypeOK

LEMMA LogServedKeeps ==
  ASSUME SideInv, NEW r \in Requests, LogServed(r)
  PROVE  Good(r)
  <1>1. /\ pc[r] = "logServed" /\ PutRow(r, "success", "reconcile", "logFailed")
        /\ UNCHANGED <<inputs, local, handle, cost, answer, ledger, files, job>>
    BY DEF LogServed
  <1>2. "reconcile" \in PCs /\ "logFailed" \in PCs
    BY DEF PCs
  <1>3. SideTypes' /\ StepOf(r)
    BY <1>1, <1>2, PutWrites DEF SideInv, SideTypes, TypeOK, StepOf, Keeps, inputs, ledger
  <1>4. \/ rows'[r] = rows[r] \cup {"success"} /\ pc'[r] = "reconcile" /\ mishaps'[r] = mishaps[r]
        \/ rows'[r] = rows[r] /\ pc'[r] = "logFailed" /\ mishaps'[r] = mishaps[r] \cup {"log"}
    BY <1>1, <1>2, PutWrites
  <1>5. Placed(r)'
    BY <1>1, <1>4, AtRequest DEF Own, Placed
  <1>6. HeldRight(r)'
    BY <1>1, <1>4, AtRequest DEF Own, HeldRight, AtMoney, AtBatch, inputs
  <1>7. SettledRight(r)'
    BY <1>1, <1>4, AtRequest DEF Own, SettledRight, Unsettled, Uncalled, AtBatch, PCs, inputs, ledger
  <1>8. CleanedUp(r)'
    BY <1>1, <1>4, AtRequest DEF Own, CleanedUp
  <1> QED BY <1>1, <1>3, <1>5, <1>6, <1>7, <1>8, QuietIsGood DEF Own, inputs

LEMMA LogFailedKeeps ==
  ASSUME SideInv, NEW r \in Requests, LogFailed(r)
  PROVE  Good(r)
  <1>1. /\ pc[r] = "logFailed" /\ PutRow(r, "error", "refund", "over")
        /\ answer' = [answer EXCEPT ![r] = IF pc'[r] = "over" THEN "error" ELSE @]
        /\ UNCHANGED <<inputs, local, handle, cost, ledger, files, job>>
    BY DEF LogFailed
  <1>2. "refund" \in PCs /\ "over" \in PCs
    BY DEF PCs
  <1>3. SideTypes' /\ StepOf(r)
    BY <1>1, <1>2, PutWrites DEF SideInv, SideTypes, TypeOK, StepOf, Keeps, inputs, ledger
  <1>4. \/ rows'[r] = rows[r] \cup {"error"} /\ pc'[r] = "refund" /\ mishaps'[r] = mishaps[r]
        \/ rows'[r] = rows[r] /\ pc'[r] = "over" /\ mishaps'[r] = mishaps[r] \cup {"log"}
    BY <1>1, <1>2, PutWrites
  <1>5. Placed(r)'
    BY <1>1, <1>4, AtRequest DEF Own, Placed
  <1>6. HeldRight(r)'
    BY <1>1, <1>4, AtRequest DEF Own, HeldRight, Outstanding, AtMoney, AtBatch, inputs, ledger
  <1>7. SettledRight(r)'
    BY <1>1, <1>4, AtRequest DEF Own, SettledRight, Unsettled, Uncalled, AtBatch, PCs, inputs, ledger
  <1>8. CleanedUp(r)'
    BY <1>1, <1>4, AtRequest DEF Own, CleanedUp
  <1> QED BY <1>1, <1>3, <1>5, <1>6, <1>7, <1>8, QuietIsGood DEF Own, inputs

\* A statement that settles, and did not answer.
LEMMA ReconcileKeeps ==
  ASSUME SideInv, NEW r \in Requests, ReconcileServed(r)
  PROVE  Good(r)
  <1>1. /\ pc[r] = "reconcile" /\ Settle(r, Reconciled(r), "over", "logFailed")
        /\ answer' = [answer EXCEPT ![r] = IF pc'[r] = "over" THEN "served" ELSE @]
        /\ UNCHANGED <<inputs, local, handle, cost, leftover>>
    BY DEF ReconcileServed
  <1>2. user[r] \in Users /\ "success" \in rows[r] /\ charges[r] = 0 /\ releases[r] = 0 /\ billed[r] = 0
    BY <1>1, AtRequest DEF Own, HeldRight, SettledRight, AtMoney, Unsettled, PCs
  <1>3. /\ pc' \in [Requests -> PCs] /\ mishaps' \in [Requests -> SUBSET Faults]
        /\ \A q \in Requests : q # r => pc'[q] = pc[q] /\ mishaps'[q] = mishaps[q]
        /\ \/ Reconciled(r) /\ pc'[r] = "over" /\ mishaps'[r] = mishaps[r]
           \/ (Reconciled(r) \/ UNCHANGED ledger) /\ pc'[r] = "logFailed"
                /\ mishaps'[r] = mishaps[r] \cup {"database"}
    BY <1>1 DEF Settle, Outside, Goto, PCs, SideInv, SideTypes, TypeOK
  <1>4. ASSUME UNCHANGED ledger, pc'[r] = "logFailed", mishaps'[r] = mishaps[r] \cup {"database"}
        PROVE  Good(r)
    <2>1. SideTypes' /\ StepOf(r)
      BY <1>1, <1>3, <1>4 DEF SideInv, SideTypes, TypeOK, StepOf, Keeps, inputs, leftover, ledger
    <2>2. Placed(r)'
      BY <1>1, <1>4, AtRequest DEF Own, Placed
    <2>3. HeldRight(r)'
      BY <1>1, <1>4, AtRequest DEF Own, HeldRight, AtMoney, AtBatch, inputs
    <2>4. SettledRight(r)'
      BY <1>1, <1>2, <1>4, AtRequest DEF Own, SettledRight, Unsettled, Uncalled, AtBatch, PCs, ledger, leftover
    <2>5. CleanedUp(r)'
      BY <1>1, <1>4, AtRequest DEF Own, CleanedUp, leftover
    <2> QED BY <1>1, <1>4, <2>1, <2>2, <2>3, <2>4, <2>5, QuietIsGood DEF Own, inputs
  <1>5. ASSUME Reconciled(r), \/ pc'[r] = "over" /\ mishaps'[r] = mishaps[r]
                              \/ pc'[r] = "logFailed" /\ mishaps'[r] = mishaps[r] \cup {"database"}
        PROVE  Good(r)
    <2>1. Release(r)
      BY <1>5 DEF Reconciled
    <2>2. /\ reserved' \in [Users -> Nat] /\ releases' \in [Requests -> Nat]
          /\ \A q \in Requests : q # r => releases'[q] = releases[q]
          /\ releases'[r] = IF handle[r].reserved THEN 1 ELSE 0
      BY <1>2, <2>1, ReleaseWrites
    <2>3. /\ spend' \in [Users -> Nat] /\ charges' \in [Requests -> Nat] /\ billed' \in [Requests -> Nat]
          /\ \A q \in Requests : q # r => charges'[q] = charges[q] /\ billed'[q] = billed[q]
          /\ charges'[r] = 1 /\ billed'[r] = cost[r]
      BY <1>2, <1>5, ReconcileWrites, AtRequest
    <2>4. SideTypes'
      BY <1>1, <1>3, <2>2, <2>3 DEF SideInv, SideTypes, TypeOK, inputs, leftover
    <2>5. StepOf(r)
      BY <1>1, <1>3, <2>2, <2>3 DEF SideInv, SideTypes, TypeOK, StepOf, Keeps, inputs, leftover
    <2>6. Placed(r)'
      BY <1>1, <1>5, AtRequest DEF Own, Placed
    <2>7. HeldRight(r)'
      BY <1>1, <1>5, <2>2, AtRequest DEF Own, HeldRight, Outstanding, AtMoney, AtBatch, inputs
    <2>8. SettledRight(r)'
      <3>1. /\ pc'[r] \in {"over", "logFailed"} /\ (pc'[r] = "logFailed" => "database" \in mishaps'[r])
            /\ releases'[r] \in {0, 1} /\ charges'[r] = 1 /\ "success" \in rows'[r] /\ user'[r] \in Users
            /\ billed'[r] = cost'[r] /\ cost'[r] \in Nat
            /\ ~(releases'[r] > 1) /\ ~(billed'[r] < cost'[r])
        BY <1>1, <1>2, <1>5, <2>2, <2>3, AtRequest DEF inputs, leftover
      <3>2. releases'[r] = 1 /\ pc'[r] = "logFailed" => "database" \in mishaps'[r]
        BY <3>1
      <3>3. pc'[r] = "logFailed" => mishaps'[r] # {}
        BY <3>1
      <3> QED BY <3>1, <3>2, <3>3 DEF SettledRight, Unsettled, Uncalled, AtBatch
    <2>9. CleanedUp(r)'
      BY <1>1, <1>5, AtRequest DEF Own, CleanedUp, leftover
    <2>10. Money'
      BY <1>1, <1>2, <1>5, <2>4, <2>5, AtRequest, ReconcileMoney DEF Own, inputs
    <2> QED BY <2>4, <2>5, <2>6, <2>7, <2>8, <2>9, <2>10 DEF Good, Own
  <1> QED BY <1>3, <1>4, <1>5

\* A refund takes effect; or does not, which its fault answers for.
LEMMA RefundIsGood ==
  ASSUME SideInv, NEW r \in Requests, pc[r] = "refund", NEW fs \in SUBSET {"cancel", "database"},
         Refunded(r) \/ (UNCHANGED ledger /\ fs # {}), pc'[r] = "over", mishaps'[r] = mishaps[r] \cup fs,
         pc' \in [Requests -> PCs], mishaps' \in [Requests -> SUBSET Faults],
         \A q \in Requests : q # r => pc'[q] = pc[q] /\ mishaps'[q] = mishaps[q],
         answer' \in [Requests -> {"none", "served", "error", "gone"}],
         \A q \in Requests : q # r => answer'[q] = answer[q],
         local' = local \/ local' = [local EXCEPT ![r] = NoLocal],
         UNCHANGED <<inputs, handle, cost, leftover>>
  PROVE  Good(r)
  <1>0. NoLocal \in Locals /\ NoLocal.route = "none"
    BY SideRoutesAssumption DEF NoLocal, Locals
  <1>1. /\ local' \in [Requests -> Locals] /\ \A q \in Requests : q # r => local'[q] = local[q]
        /\ local'[r] \in {local[r], NoLocal}
    BY <1>0 DEF SideInv, SideTypes, TypeOK
  <1>2. /\ user[r] \in Users /\ releases[r] \in {0, 1} /\ (releases[r] = 1 => "database" \in mishaps[r])
        /\ ("success" \in rows[r] => mishaps[r] # {})
    BY AtRequest DEF Own, HeldRight, SettledRight, AtMoney
  <1>3. Placed(r)'
    BY <1>0, <1>1, AtRequest DEF Own, Placed, Audio
  <1>4. CleanedUp(r)'
    BY AtRequest DEF Own, CleanedUp, leftover
  <1>5. CASE UNCHANGED ledger /\ fs # {}
    <2>1. SideTypes' /\ StepOf(r)
      BY <1>1, <1>5 DEF SideInv, SideTypes, TypeOK, StepOf, Keeps, inputs, leftover, ledger
    <2>2. HeldRight(r)'
      BY <1>5, AtRequest DEF Own, HeldRight, AtMoney, AtBatch, inputs
    <2>3. SettledRight(r)'
      BY <1>2, <1>5, AtRequest DEF Own, SettledRight, Unsettled, Uncalled, AtBatch, inputs, leftover, ledger
    <2> QED BY <1>3, <1>4, <1>5, <2>1, <2>2, <2>3, QuietIsGood DEF Own, inputs
  <1>6. CASE Refunded(r)
    <2>1. Release(r) /\ UNCHANGED <<spend, charges, billed>>
      BY <1>6 DEF Refunded
    <2>2. /\ reserved' \in [Users -> Nat] /\ releases' \in [Requests -> Nat]
          /\ \A q \in Requests : q # r => releases'[q] = releases[q]
          /\ releases'[r] = releases[r] + (IF handle[r].reserved THEN 1 ELSE 0)
      BY <1>2, <2>1, ReleaseWrites
    <2>3. SideTypes'
      BY <1>1, <2>1, <2>2 DEF SideInv, SideTypes, TypeOK, inputs, leftover
    <2>4. StepOf(r)
      BY <1>1, <2>1, <2>2 DEF SideInv, SideTypes, TypeOK, StepOf, Keeps, inputs, leftover
    <2>5. HeldRight(r)'
      BY <1>2, <2>2, AtRequest DEF Own, HeldRight, Outstanding, AtMoney, AtBatch, inputs
    <2>6. SettledRight(r)'
      BY <1>2, <2>1, <2>2, AtRequest DEF Own, SettledRight, Unsettled, Uncalled, AtBatch, inputs, leftover
    <2>7. Money'
      BY <1>2, <1>6, <2>3, <2>4, AtRequest, RefundMoney DEF Own, inputs
    <2> QED BY <1>3, <1>4, <2>3, <2>4, <2>5, <2>6, <2>7 DEF Good, Own
  <1> QED BY <1>5, <1>6

LEMMA RefundKeeps ==
  ASSUME SideInv, NEW r \in Requests, RefundFailed(r)
  PROVE  Good(r)
  <1>1. /\ pc[r] = "refund" /\ Settle(r, Refunded(r), "over", "over")
        /\ answer' = [answer EXCEPT ![r] = "error"]
        /\ UNCHANGED <<inputs, local, handle, cost, leftover>>
    BY DEF RefundFailed
  <1>2. /\ pc' \in [Requests -> PCs] /\ pc'[r] = "over"
        /\ \A q \in Requests : q # r => pc'[q] = pc[q]
    BY <1>1 DEF Settle, Goto, PCs, SideInv, SideTypes, TypeOK
  <1>3. PICK fs \in SUBSET {"cancel", "database"} :
          /\ Refunded(r) \/ (UNCHANGED ledger /\ fs # {})
          /\ mishaps' \in [Requests -> SUBSET Faults] /\ mishaps'[r] = mishaps[r] \cup fs
          /\ \A q \in Requests : q # r => mishaps'[q] = mishaps[q]
    <2>1. CASE Refunded(r) /\ UNCHANGED mishaps
      <3> WITNESS {} \in SUBSET {"cancel", "database"}
      <3> QED BY <2>1 DEF SideInv, SideTypes, TypeOK
    <2>2. CASE /\ Refunded(r) \/ UNCHANGED ledger
               /\ "database" \in Faults
               /\ mishaps' = [mishaps EXCEPT ![r] = @ \cup {"database"}]
      <3> WITNESS {"database"} \in SUBSET {"cancel", "database"}
      <3> QED BY <2>2 DEF SideInv, SideTypes, TypeOK
    <2> QED BY <1>1, <2>1, <2>2 DEF Settle, Outside
  <1>4. /\ answer' \in [Requests -> {"none", "served", "error", "gone"}]
        /\ \A q \in Requests : q # r => answer'[q] = answer[q]
    BY <1>1 DEF SideInv, SideTypes
  <1> HIDE DEF SideInv, Good
  <1> QED BY <1>1, <1>2, <1>3, <1>4, RefundIsGood

-----------------------------------------------------------------------------
(***************************************************************************)
(* The batch routes.                                                       *)
(***************************************************************************)

\* A batch route holds nothing and owes nothing.
LEMMA BatchIsGood ==
  ASSUME SideInv, NEW r \in Requests, pc[r] \in {"idle"} \cup AtBatch, pc'[r] \in AtBatch \cup {"over"},
         UNCHANGED <<inputs, handle, cost, ledger>>, SideTypes', StepOf(r),
         local'[r] = NoLocal \/ local'[r] = local[r] \/ local'[r].route \in BatchRoutes,
         pc'[r] # "over" => rows'[r] = {}, CleanedUp(r)'
  PROVE  Good(r)
  <1>0. NoLocal.route = "none"
    BY DEF NoLocal
  <1>1. Placed(r)'
    <2>1. local'[r].route \in Audio => local'[r].price = NoPrice
      BY <1>0, AtRequest DEF Own, Placed, Audio, BatchRoutes
    <2> QED BY <2>1 DEF Placed, AtBatch
  <1>2. ~handle[r].reserved
    BY AtRequest DEF Own, HeldRight
  <1>3. HeldRight(r)'
    BY <1>2, AtRequest DEF Own, HeldRight, Outstanding, AtMoney, AtBatch, inputs
  <1>4. charges[r] = 0 /\ releases[r] = 0 /\ billed[r] = 0 /\ cost[r] = 0
    BY AtRequest DEF Own, SettledRight, Unsettled, Uncalled, PCs, AtBatch
  <1>5. SettledRight(r)'
    BY <1>4 DEF SettledRight, Unsettled, Uncalled, AtBatch, PCs, ledger
  <1> QED BY <1>1, <1>3, <1>5, QuietIsGood DEF Own, inputs

LEMMA BeginCreateBatchKeeps ==
  ASSUME SideInv, NEW r \in Requests, BeginCreateBatch(r)
  PROVE  Good(r)
  <1>1. pc[r] = "idle" /\ UNCHANGED <<inputs, handle, cost, ledger, rows, job>>
    BY DEF BeginCreateBatch
  <1>2. rows[r] = {} /\ job[r] = "none"
    BY <1>1, AtRequest DEF Own, SettledRight, CleanedUp, Unsettled, PCs
  <1>3. CASE Ends(r, "error", {}) /\ UNCHANGED files
    BY <1>1, <1>3, FailsIsGood DEF leftover
  <1>4. CASE files' = files \cup {r} /\ Goes(r, "creating")
    <2>1. pc' = [pc EXCEPT ![r] = "creating"] /\ UNCHANGED <<local, answer, mishaps>>
      BY <1>4 DEF Goes, Proceeds, Goto
    <2>2. SideTypes'
      BY <1>1, <1>4, <2>1 DEF SideInv, SideTypes, TypeOK, PCs, inputs, ledger
    <2>3. StepOf(r)
      BY <1>1, <1>4, <2>1 DEF SideInv, SideTypes, TypeOK, StepOf, Keeps, inputs, ledger
    <2>4. pc'[r] = "creating"
      BY <2>1 DEF SideInv, SideTypes, TypeOK
    <2>5. CleanedUp(r)'
      BY <1>1, <1>2, <2>4 DEF CleanedUp
    <2> QED BY <1>1, <1>2, <2>1, <2>2, <2>3, <2>4, <2>5, BatchIsGood DEF AtBatch
  <1>5. CASE "disk" \in Faults /\ files' = files \cup {r} /\ Ends(r, "error", {"disk"})
    <2>1. ~handle[r].reserved
      BY <1>1, AtRequest DEF Own, HeldRight
    <2>2. files' \subseteq Requests /\ job \in [Requests -> {"none", "running", "done", "cancelled"}]
      BY <1>5 DEF SideInv, SideTypes, TypeOK
    <2> HIDE DEF SideInv, Good
    <2> QED BY <1>1, <1>5, <2>1, <2>2, EndsIsGood
  <1> QED BY <1>1, <1>3, <1>4, <1>5 DEF BeginCreateBatch, Outside

LEMMA CreateBatchKeeps ==
  ASSUME SideInv, NEW r \in Requests, CreateBatch(r)
  PROVE  Good(r)
  <1>1. pc[r] = "creating" /\ UNCHANGED <<inputs, local, handle, cost, ledger, rows>>
    BY DEF CreateBatch
  <1>2. rows[r] = {} /\ job[r] = "none"
    BY <1>1, AtRequest DEF Own, SettledRight, CleanedUp, Unsettled, PCs
  <1>3. /\ pc' \in [Requests -> PCs] /\ answer' \in [Requests -> {"none", "served", "error", "gone"}]
        /\ job' \in [Requests -> {"none", "running", "done", "cancelled"}]
        /\ files' \subseteq files /\ \A q \in Requests : q # r /\ q \in files => q \in files'
        /\ \A q \in Requests : q # r => pc'[q] = pc[q] /\ answer'[q] = answer[q] /\ job'[q] = job[q]
    BY DEF CreateBatch, Goto, Unlink, PCs, SideInv, SideTypes, TypeOK
  <1>4. /\ pc'[r] \in {"logBatch", "logBatchFailed", "over"}
        /\ pc'[r] = "logBatchFailed" \/ Unlink(r)
    BY DEF CreateBatch, Goto, SideInv, SideTypes, TypeOK
  <1>5. PICK fs : /\ mishaps' = [mishaps EXCEPT ![r] = @ \cup fs]
                  /\ fs \subseteq Faults
                  /\ r \in files' /\ pc'[r] # "logBatchFailed" => "disk" \in fs
                  /\ job'[r] # "none" /\ pc'[r] # "logBatch" => "reply" \in fs
    <2>1. r \in files' /\ Unlink(r) => "disk" \in Faults
      BY DEF Unlink, Outside
    <2>2. CASE pc'[r] = "logBatch"
      <3> WITNESS UnlinkFault(r)
      <3> QED BY <1>4, <2>1, <2>2 DEF CreateBatch, UnlinkFault, Goto, SideInv, SideTypes, TypeOK
    <2>3. CASE pc'[r] # "logBatch"
      <3> DEFINE u == IF pc'[r] = "over" THEN UnlinkFault(r) ELSE {}
      <3>1. \/ UNCHANGED job /\ mishaps' = [mishaps EXCEPT ![r] = @ \cup u]
            \/ "reply" \in Faults /\ mishaps' = [mishaps EXCEPT ![r] = @ \cup {"reply"} \cup u]
        BY <2>3 DEF CreateBatch, Outside, Goto, SideInv, SideTypes, TypeOK
      <3>2. u \subseteq Faults /\ (r \in files' /\ pc'[r] # "logBatchFailed" => "disk" \in u)
        BY <1>4, <2>1, <2>3 DEF UnlinkFault
      <3> HIDE DEF u
      <3>3. CASE UNCHANGED job /\ mishaps' = [mishaps EXCEPT ![r] = @ \cup u]
        <4> WITNESS u
        <4> QED BY <1>2, <3>2, <3>3
      <3>4. CASE "reply" \in Faults /\ mishaps' = [mishaps EXCEPT ![r] = @ \cup {"reply"} \cup u]
        <4>1. mishaps' = [mishaps EXCEPT ![r] = @ \cup ({"reply"} \cup u)]
          <5>1. mishaps[r] \cup {"reply"} \cup u = mishaps[r] \cup ({"reply"} \cup u)
            OBVIOUS
          <5> QED BY <3>4, <5>1
        <4> WITNESS {"reply"} \cup u
        <4> QED BY <3>2, <3>4, <4>1
      <3> QED BY <3>1, <3>3, <3>4
    <2> QED BY <2>2, <2>3
  <1>6. /\ mishaps' \in [Requests -> SUBSET Faults] /\ mishaps'[r] = mishaps[r] \cup fs
        /\ \A q \in Requests : q # r => mishaps'[q] = mishaps[q]
    BY <1>5 DEF SideInv, SideTypes, TypeOK
  <1>7. SideTypes'
    BY <1>1, <1>3, <1>6 DEF SideInv, SideTypes, TypeOK, inputs, ledger
  <1>8. StepOf(r)
    BY <1>1, <1>3, <1>6 DEF StepOf, Keeps, inputs, ledger
  <1>9. CleanedUp(r)'
    BY <1>4, <1>5, <1>6 DEF CleanedUp
  <1>10. pc[r] \in AtBatch /\ pc'[r] \in AtBatch \cup {"over"}
    BY <1>1, <1>4 DEF AtBatch
  <1> QED BY <1>1, <1>2, <1>7, <1>8, <1>9, <1>10, BatchIsGood

LEMMA LogBatchFailedKeeps ==
  ASSUME SideInv, NEW r \in Requests, LogBatchFailed(r)
  PROVE  Good(r)
  <1>1. /\ pc[r] = "logBatchFailed" /\ UNCHANGED <<inputs, handle, cost, ledger, job>>
        /\ Unlink(r) /\ rows' \in [Requests -> SUBSET {"success", "error"}]
        /\ \A q \in Requests : q # r => rows'[q] = rows[q]
    BY DEF LogBatchFailed, SideInv, SideTypes, TypeOK
  <1>2. PICK fs \in SUBSET Faults : Ends(r, "error", fs) /\ (r \in files' => "disk" \in fs)
    <2>1. UnlinkFault(r) \subseteq Faults /\ (r \in files' => "disk" \in UnlinkFault(r))
      BY <1>1 DEF Unlink, Outside, UnlinkFault
    <2>2. CASE Ends(r, "error", UnlinkFault(r))
      BY <2>1, <2>2
    <2>3. CASE Outside("log") /\ Ends(r, "error", {"log"} \cup UnlinkFault(r))
      <3>1. {"log"} \cup UnlinkFault(r) \in SUBSET Faults
        BY <2>1, <2>3 DEF Outside
      <3> QED BY <2>1, <2>3, <3>1
    <2> QED BY <2>2, <2>3 DEF LogBatchFailed
  <1>3. /\ pc'[r] = "over" /\ local'[r] = NoLocal /\ answer'[r] = "error" /\ mishaps'[r] = mishaps[r] \cup fs
        /\ \A q \in Requests : q # r => /\ pc'[q] = pc[q] /\ local'[q] = local[q]
                                        /\ answer'[q] = answer[q] /\ mishaps'[q] = mishaps[q]
    BY <1>2 DEF Ends, Forget, Goto, SideInv, SideTypes, TypeOK
  <1>4. NoLocal \in Locals
    BY SideRoutesAssumption DEF NoLocal, Locals
  <1>5. files' \subseteq files
    BY <1>1 DEF Unlink
  <1>6. SideTypes'
    BY <1>1, <1>2, <1>4, <1>5 DEF Ends, Forget, Goto, PCs, SideInv, SideTypes, TypeOK, inputs, ledger
  <1>7. StepOf(r)
    BY <1>1, <1>3, <1>5 DEF StepOf, Keeps, inputs, ledger
  <1>8. CleanedUp(r)'
    BY <1>1, <1>2, <1>3, AtRequest DEF Own, CleanedUp
  <1> QED BY <1>1, <1>3, <1>6, <1>7, <1>8, BatchIsGood DEF AtBatch

\* The row of a batch, or of its results: without it the handler answers an error.
LEMMA LastRowKeeps ==
  ASSUME SideInv, NEW r \in Requests, pc[r] \in {"logBatch", "logResults"},
         PutRow(r, "success", "over", "over"),
         answer' = [answer EXCEPT ![r] = IF rows'[r] # rows[r] THEN "served" ELSE "error"],
         UNCHANGED <<inputs, local, handle, cost, ledger, files, job>>
  PROVE  Good(r)
  <1>1. "over" \in PCs
    BY DEF PCs
  <1>2. SideTypes' /\ StepOf(r)
    BY <1>1, PutWrites DEF SideInv, SideTypes, TypeOK, StepOf, Keeps, inputs, ledger
  <1>3. /\ pc'[r] = "over"
        /\ \/ rows'[r] = rows[r] \cup {"success"} /\ mishaps'[r] = mishaps[r]
           \/ mishaps'[r] = mishaps[r] \cup {"log"}
    BY <1>1, PutWrites
  <1>4. rows[r] = {}
    BY AtRequest DEF Own, SettledRight, Unsettled, PCs
  <1>5. answer'[r] = "served" \/ "log" \in mishaps'[r]
    BY <1>3, <1>4 DEF SideInv, SideTypes
  <1>6. CleanedUp(r)'
    BY <1>3, <1>5, AtRequest DEF Own, CleanedUp
  <1> QED BY <1>2, <1>3, <1>6, BatchIsGood DEF AtBatch

LEMMA BeginBatchQueryKeeps ==
  ASSUME SideInv, NEW r \in Requests, NEW rt \in BatchRoutes, BeginBatchQuery(r, rt)
  PROVE  Good(r)
  <1>1. pc[r] = "idle" /\ UNCHANGED <<inputs, handle, cost, ledger, leftover>>
    BY DEF BeginBatchQuery
  <1>2. CASE Ends(r, "error", {})
    BY <1>1, <1>2, FailsIsGood
  <1>3. CASE Proceeds(r, "atProvider") /\ local' = [local EXCEPT ![r].route = rt]
    <2>1. pc' = [pc EXCEPT ![r] = "atProvider"] /\ UNCHANGED <<answer, mishaps>>
      BY <1>3 DEF Proceeds, Goto
    <2>2. \A x \in Locals : LET y == [x EXCEPT !.route = rt] IN y \in Locals /\ y.route = rt
      BY DEF Locals
    <2>3. /\ local' \in [Requests -> Locals] /\ local'[r].route = rt
          /\ \A q \in Requests : q # r => local'[q] = local[q]
      BY <1>3, <2>2, AtRequest DEF SideInv, SideTypes, TypeOK
    <2>4. SideTypes' /\ StepOf(r) /\ pc'[r] = "atProvider"
      BY <1>1, <2>1, <2>3 DEF SideInv, SideTypes, TypeOK, StepOf, Keeps, PCs, inputs, ledger, leftover
    <2>5. rows'[r] = {}
      BY <1>1, AtRequest DEF Own, SettledRight, Unsettled, PCs, leftover
    <2>6. CleanedUp(r)'
      BY <1>1, <2>1, <2>4, AtRequest DEF Own, CleanedUp, leftover
    <2> QED BY <1>1, <2>3, <2>4, <2>5, <2>6, BatchIsGood DEF AtBatch
  <1> QED BY <1>2, <1>3 DEF BeginBatchQuery

LEMMA BatchQueryKeeps ==
  ASSUME SideInv, NEW r \in Requests,
         BatchQueryFails(r) \/ RetrieveBatch(r) \/ ListBatches(r)
  PROVE  Good(r)
  BY FailsIsGood DEF BatchQueryFails, RetrieveBatch, ListBatches, AtProvider

\* Cancelling may touch the job of another request, and leaves it a job.
LEMMA CancelBatchKeeps ==
  ASSUME SideInv, NEW r \in Requests, CancelBatch(r)
  PROVE  Good(r)
  <1>1. /\ pc[r] = "atProvider" /\ Ends(r, "served", {})
        /\ UNCHANGED <<inputs, handle, cost, ledger, rows, files>>
    BY DEF CancelBatch, AtProvider
  <1>2. ~handle[r].reserved /\ job[r] = "none" /\ (r \in files => "disk" \in mishaps[r])
    BY <1>1, AtRequest DEF Own, HeldRight, CleanedUp, AtBatch
  <1>3. /\ job' \in [Requests -> {"none", "running", "done", "cancelled"}]
        /\ \A q \in Requests : job'[q] # "none" => job[q] # "none"
    BY DEF CancelBatch, SideInv, SideTypes, TypeOK
  <1>4. files \subseteq Requests
    BY DEF SideInv, SideTypes, TypeOK
  <1> HIDE DEF SideInv, Good
  <1> QED BY <1>1, <1>2, <1>3, <1>4, EndsIsGood

LEMMA BatchResultsKeeps ==
  ASSUME SideInv, NEW r \in Requests, RetrieveBatchResults(r)
  PROVE  Good(r)
  <1>1. CASE pc[r] = "logResults"
    BY <1>1, LastRowKeeps DEF RetrieveBatchResults, AtProvider
  <1>2. CASE pc[r] = "atProvider"
    <2>1. /\ pc' = [pc EXCEPT ![r] = "logResults"] /\ local' = [local EXCEPT ![r] = NoLocal]
          /\ UNCHANGED <<answer, mishaps, rows, inputs, handle, cost, ledger, files, job>>
      BY <1>2 DEF RetrieveBatchResults, Proceeds, Goto, Forget
    <2>2. NoLocal \in Locals
      BY SideRoutesAssumption DEF NoLocal, Locals
    <2>3. SideTypes' /\ StepOf(r) /\ pc'[r] = "logResults" /\ local'[r] = NoLocal
      BY <2>1, <2>2 DEF SideInv, SideTypes, TypeOK, StepOf, Keeps, PCs, inputs, ledger
    <2>4. rows'[r] = {}
      BY <1>2, <2>1, AtRequest DEF Own, SettledRight, Unsettled, PCs
    <2>5. CleanedUp(r)'
      BY <1>2, <2>1, <2>3, AtRequest DEF Own, CleanedUp
    <2> QED BY <1>2, <2>1, <2>3, <2>4, <2>5, BatchIsGood DEF AtBatch
  <1> QED BY <1>1, <1>2 DEF RetrieveBatchResults, AtProvider

-----------------------------------------------------------------------------
(***************************************************************************)
(* The provider, and the end of a task.                                    *)
(***************************************************************************)

LEMMA JobCompletesKeeps ==
  ASSUME SideInv, NEW r \in Requests, JobCompletes(r)
  PROVE  Good(r)
  <1>1. SideTypes'
    BY DEF JobCompletes, SideInv, SideTypes, TypeOK, inputs, ledger
  <1>2. \A q \in Requests : Keeps(q)
    BY DEF JobCompletes, Keeps, SideInv, SideTypes, TypeOK, inputs, ledger
  <1>3. Own(r)'
    BY <1>2, AtRequest, KeepsOwn
  <1>4. UNCHANGED ledger /\ handle'[r] = handle[r] /\ user'[r] = user[r]
    BY DEF JobCompletes, inputs
  <1> QED BY <1>1, <1>2, <1>3, <1>4, QuietIsGood DEF StepOf

\* The settling statement was sent, and nobody waits for its answer.
LEMMA LostReconcileKeeps ==
  ASSUME SideInv, NEW r \in Requests, pc[r] = "reconcile", Reconciled(r), "cancel" \in Faults,
         Ends(r, "gone", {"cancel"}), UNCHANGED <<inputs, handle, cost, leftover>>
  PROVE  Good(r)
  <1>1. /\ pc'[r] = "over" /\ local'[r] = NoLocal /\ mishaps'[r] = mishaps[r] \cup {"cancel"}
        /\ \A q \in Requests : q # r => /\ pc'[q] = pc[q] /\ local'[q] = local[q]
                                        /\ answer'[q] = answer[q] /\ mishaps'[q] = mishaps[q]
    BY DEF Ends, Forget, Goto, SideInv, SideTypes, TypeOK
  <1>2. NoLocal \in Locals /\ NoLocal.route = "none"
    BY SideRoutesAssumption DEF NoLocal, Locals
  <1>3. user[r] \in Users /\ "success" \in rows[r] /\ charges[r] = 0 /\ releases[r] = 0 /\ billed[r] = 0
    BY AtRequest DEF Own, HeldRight, SettledRight, AtMoney, Unsettled, PCs
  <1>4. /\ reserved' \in [Users -> Nat] /\ releases' \in [Requests -> Nat]
        /\ \A q \in Requests : q # r => releases'[q] = releases[q]
        /\ releases'[r] = IF handle[r].reserved THEN 1 ELSE 0
    BY <1>3, ReleaseWrites DEF Reconciled
  <1>5. /\ spend' \in [Users -> Nat] /\ charges' \in [Requests -> Nat] /\ billed' \in [Requests -> Nat]
        /\ \A q \in Requests : q # r => charges'[q] = charges[q] /\ billed'[q] = billed[q]
        /\ charges'[r] = 1 /\ billed'[r] = cost[r]
    BY <1>3, ReconcileWrites, AtRequest
  <1>6. SideTypes'
    BY <1>2, <1>4, <1>5 DEF Ends, Forget, Goto, PCs, SideInv, SideTypes, TypeOK, inputs, leftover
  <1>7. StepOf(r)
    BY <1>1, <1>4, <1>5 DEF StepOf, Keeps, inputs, leftover
  <1>8. Placed(r)'
    BY <1>1, <1>2 DEF Placed, Audio
  <1>9. HeldRight(r)'
    BY <1>1, AtRequest DEF Own, HeldRight, AtMoney, AtBatch, inputs
  <1>10. SettledRight(r)'
    <2>1. /\ releases'[r] \in {0, 1} /\ charges'[r] = 1 /\ "success" \in rows'[r] /\ user'[r] \in Users
          /\ billed'[r] = cost'[r] /\ cost'[r] \in Nat
          /\ ~(releases'[r] > 1) /\ ~(billed'[r] < cost'[r])
      BY <1>3, <1>4, <1>5, AtRequest DEF inputs, leftover
    <2> QED BY <1>1, <2>1 DEF SettledRight, Unsettled, Uncalled, AtBatch
  <1>11. CleanedUp(r)'
    BY <1>1, AtRequest DEF Own, CleanedUp, leftover
  <1>12. Money'
    BY <1>3, <1>6, <1>7, AtRequest, ReconcileMoney DEF Own, inputs
  <1> QED BY <1>6, <1>7, <1>8, <1>9, <1>10, <1>11, <1>12 DEF Good, Own

LEMMA CancelKeeps ==
  ASSUME SideInv, NEW r \in Requests, Cancel(r)
  PROVE  Good(r)
  <1>1. /\ "cancel" \in Faults /\ pc[r] \in PCs \ {"idle", "selector", "gate", "over"}
        /\ Ends(r, "gone", {"cancel"})
        /\ files' = IF pc[r] \in {"creating", "logBatchFailed"} THEN files \ {r} ELSE files
        /\ UNCHANGED <<inputs, cost, rows>>
    BY AtRequest DEF Cancel, Outside
  <1>2. r \in files' => "disk" \in mishaps[r]
    BY <1>1, AtRequest DEF Own, CleanedUp
  <1>3. files' \subseteq Requests /\ \A q \in files' : q \in files
    BY <1>1 DEF SideInv, SideTypes, TypeOK
  <1>4. CASE UNCHANGED <<handle, ledger>>
             /\ (UNCHANGED job \/ job' = [job EXCEPT ![r] = "running"])
    <2>1. /\ job' \in [Requests -> {"none", "running", "done", "cancelled"}]
          /\ \A q \in Requests : q # r => job'[q] = job[q]
      BY <1>4 DEF SideInv, SideTypes, TypeOK
    <2> HIDE DEF SideInv, Good
    <2> QED BY <1>1, <1>2, <1>3, <1>4, <2>1, EndsIsGood
  <1>5. CASE pc[r] = "reserve" /\ TakesHold(r) /\ UNCHANGED <<spend, charges, releases, billed, job>>
    <2>1. UNCHANGED leftover
      BY <1>1, <1>5 DEF leftover
    <2> QED BY <1>1, <1>5, <2>1, LostHoldKeeps
  <1>6. CASE pc[r] = "reconcile" /\ Reconciled(r) /\ UNCHANGED <<handle, job>>
    <2>1. UNCHANGED leftover
      BY <1>1, <1>6 DEF leftover
    <2> QED BY <1>1, <1>6, <2>1, LostReconcileKeeps
  <1>7. CASE pc[r] = "refund" /\ Refunded(r) /\ UNCHANGED <<handle, job>>
    <2>1. UNCHANGED leftover
      BY <1>1, <1>7 DEF leftover
    <2>2. /\ pc'[r] = "over" /\ pc' \in [Requests -> PCs] /\ mishaps'[r] = mishaps[r] \cup {"cancel"}
          /\ mishaps' \in [Requests -> SUBSET Faults] /\ local' = [local EXCEPT ![r] = NoLocal]
          /\ answer' \in [Requests -> {"none", "served", "error", "gone"}]
          /\ \A q \in Requests : q # r => /\ pc'[q] = pc[q] /\ mishaps'[q] = mishaps[q]
                                          /\ answer'[q] = answer[q]
      BY <1>1 DEF Ends, Forget, Goto, PCs, SideInv, SideTypes, TypeOK
    <2>3. {"cancel"} \in SUBSET {"cancel", "database"}
      OBVIOUS
    <2> HIDE DEF SideInv, Good
    <2> QED BY <1>1, <1>7, <2>1, <2>2, <2>3, RefundIsGood
  <1> QED BY <1>4, <1>5, <1>6, <1>7 DEF Cancel

-----------------------------------------------------------------------------
(***************************************************************************)
(* The invariant, and what it is for.                                      *)
(***************************************************************************)

LEMMA StepKeeps ==
  ASSUME SideInv, NEW r \in Requests, Arrive(r) \/ Handle(r) \/ JobCompletes(r) \/ Cancel(r)
  PROVE  Good(r)
  <1>1. CASE Arrive(r)
    <2>1. CASE \E rt \in Settling, k \in Users \cup {NoUser, Master}, named \in Users \cup {NoUser} :
                 Begin(r, rt, k, named)
      BY <2>1, BeginKeeps
    <2>2. CASE BeginCreateBatch(r)
      BY <2>2, BeginCreateBatchKeeps
    <2>3. CASE \E rt \in BatchRoutes \ {"createBatch"} : BeginBatchQuery(r, rt)
      BY <2>3, BeginBatchQueryKeeps
    <2> QED BY <1>1, <2>1, <2>2, <2>3 DEF Arrive
  <1>2. CASE Handle(r)
    <2>1. CASE LogBatch(r)
      BY <2>1, LastRowKeeps DEF LogBatch
    <2> QED BY <1>2, <2>1, SelectorKeeps, ReadPriceKeeps, ReserveBudgetKeeps, PriceGateKeeps,
               ReadUploadKeeps, CallProviderKeeps, LogServedKeeps, ReconcileKeeps, LogFailedKeeps,
               RefundKeeps, CreateBatchKeeps, LogBatchFailedKeeps, BatchQueryKeeps, CancelBatchKeeps,
               BatchResultsKeeps DEF Handle
  <1>3. CASE JobCompletes(r)
    BY <1>3, JobCompletesKeeps
  <1>4. CASE Cancel(r)
    BY <1>4, CancelKeeps
  <1> QED BY <1>1, <1>2, <1>3, <1>4

LEMMA InitHas == Init => SideInv
  <1> SUFFICES ASSUME Init PROVE SideInv
    OBVIOUS
  <1>1. NoLocal \in Locals /\ NoLocal.route = "none" /\ NoHold \in Handles
        /\ NoHold.reserved = FALSE /\ NoHold.estimate = 0
    BY SideRoutesAssumption DEF NoLocal, Locals, NoHold, Handles
  <1>2. SideTypes
    BY <1>1 DEF Init, All, SideTypes, TypeOK, PCs
  <1>3. \A r \in Requests : Own(r)
    <2> TAKE r \in Requests
    <2>1. /\ pc[r] = "idle" /\ local[r] = NoLocal /\ user[r] = NoUser /\ NoUser \notin Users
          /\ ~handle[r].reserved /\ handle[r].estimate = 0 /\ rows[r] = {} /\ r \notin files
          /\ job[r] = "none" /\ cost[r] = 0 /\ charges[r] = 0 /\ releases[r] = 0 /\ billed[r] = 0
      BY <1>1, SideRoutesAssumption DEF Init, All
    <2>2. Placed(r)
      BY <1>1, <2>1 DEF Placed, Audio
    <2>3. HeldRight(r)
      BY <2>1 DEF HeldRight, AtMoney
    <2>4. SettledRight(r)
      BY <2>1 DEF SettledRight
    <2>5. CleanedUp(r)
      BY <2>1 DEF CleanedUp
    <2> QED BY <2>2, <2>3, <2>4, <2>5 DEF Own
  <1>4. \A u \in Users : Of(u) = {} /\ HeldBy(u) = {}
    BY SideRoutesAssumption DEF Init, All, Of, HeldBy
  <1>5. \A u \in Users : spend[u] = 0 /\ reserved[u] = 0
    BY DEF Init
  <1> HIDE DEF SideTypes, Own, Of, HeldBy
  <1>6. \A u \in Users : /\ SumFunctionOnSet(billed, Of(u)) = 0
                         /\ SumFunctionOnSet(Holds, HeldBy(u)) = 0
                         /\ SumFunctionOnSet(Overruns, Of(u)) = 0
    <2>1. /\ SumFunctionOnSet(billed, {}) = 0 /\ SumFunctionOnSet(Holds, {}) = 0
          /\ SumFunctionOnSet(Overruns, {}) = 0
      BY SumEmpty
    <2> HIDE DEF Holds, Overruns
    <2> QED BY <1>4, <2>1
  <1>7. SpendAddsUp /\ HoldsAddUp /\ CapIsKept
    <2>1. Budgeted \subseteq Users /\ Cap \in Nat
      BY SideRoutesAssumption
    <2> HIDE DEF Holds, Overruns
    <2> QED BY <1>5, <1>6, <2>1 DEF SpendAddsUp, HoldsAddUp, CapIsKept
  <1> QED BY <1>2, <1>3, <1>7 DEF SideInv

LEMMA NextKeeps == SideInv /\ [Next]_vars => SideInv'
  <1>1. ASSUME SideInv, NEW r \in Requests, Arrive(r) \/ Handle(r) \/ JobCompletes(r) \/ Cancel(r)
        PROVE  SideInv'
    <2>1. SideTypes' /\ StepOf(r) /\ Own(r)' /\ Money'
      BY <1>1, StepKeeps DEF Good
    <2>2. ASSUME NEW q \in Requests PROVE Own(q)'
      <3>1. CASE q = r
        BY <2>1, <3>1
      <3>2. CASE q # r
        BY <1>1, <2>1, <3>2, KeepsOwn DEF SideInv, StepOf
      <3> QED BY <3>1, <3>2
    <2> QED BY <2>1, <2>2 DEF SideInv, Money
  <1>2. ASSUME SideInv, UNCHANGED vars PROVE SideInv'
    <2>1. SideTypes'
      BY <1>2 DEF SideInv, SideTypes, TypeOK, vars, inputs, ledger, leftover
    <2>2. \A q \in Requests : Keeps(q)
      BY <1>2 DEF Keeps, vars, inputs, ledger, leftover
    <2>3. \A q \in Requests : Own(q)'
      BY <1>2, <2>2, KeepsOwn DEF SideInv
    <2>4. UNCHANGED <<user, handle, billed, releases, spend, reserved>>
      BY <1>2 DEF vars, inputs, ledger
    <2>5. SpendAddsUp' /\ HoldsAddUp' /\ CapIsKept'
      BY <1>2, <2>4 DEF SideInv, SpendAddsUp, HoldsAddUp, CapIsKept, Of, HeldBy, Outstanding, OnceReleased,
                        Holds, Overruns
    <2> QED BY <2>1, <2>3, <2>5 DEF SideInv
  <1> QED BY <1>1, <1>2 DEF Next

\* The inductive invariant: what every request may assume of itself at each await,
\* and the three sums of every user (_pre_debit, reconcile_reservation and
\* refund_reservation as the side routes call them).
THEOREM SideKeepsInv == Spec => []SideInv
  BY InitHas, NextKeeps, PTL DEF Spec

\* A positive hold, a hold given back twice, a temporary file and an untold batch
\* each have their cause among the faults the handler met.
THEOREM LeftoversDoHaveCause == Spec => []LeftoversHaveCause
  <1>1. SideInv => LeftoversHaveCause
    BY DEF SideInv, Own, HeldRight, SettledRight, CleanedUp, LeftoversHaveCause
  <1> QED BY <1>1, SideKeepsInv, PTL

\* Spend is the sum of what the requests were billed, each once, on its success row,
\* by the master key or a key of the user that pays.
THEOREM SpendDoesLog == Spec => []SpendIsLogged
  <1>1. SideInv => SpendIsLogged
    <2> SUFFICES ASSUME SideInv PROVE SpendIsLogged
      OBVIOUS
    <2>1. \A u \in Users : spend[u] = SumFunctionOnSet(billed, {r \in Requests : user[r] = u})
      BY DEF SideInv, SpendAddsUp, Of
    <2>2. \A r \in Requests :
            /\ billed[r] > 0 => /\ "success" \in rows[r] /\ charges[r] = 1
                                /\ billed[r] = cost[r] /\ key[r] \in {Master, user[r]}
            /\ pc[r] = "over" /\ "success" \in rows[r] /\ billed[r] < cost[r] => mishaps[r] # {}
      BY DEF SideInv, Own, HeldRight, SettledRight
    <2> QED BY <2>1, <2>2 DEF SpendIsLogged
  <1> QED BY <1>1, SideKeepsInv, PTL

\* Whatever race the requests of a user run for the budget, spent plus reserved
\* money passes the cap only by what calls cost above their estimate.
THEOREM CapDoesHold == Spec => []CommittedWithinCap
  <1>1. SideInv => CommittedWithinCap
    BY DEF SideInv, HoldsAddUp, CapIsKept, CommittedWithinCap, OnceReleased, Holds, Overruns, Overrun, Of
  <1> QED BY <1>1, SideKeepsInv, PTL
=============================================================================
