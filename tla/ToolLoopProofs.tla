--------------------------- MODULE ToolLoopProofs ---------------------------
(***************************************************************************)
(* Proofs about ToolLoop, for any tools, servers, guardrails and limits:   *)
(* the guardrails decide, the calls are answered once and in their place,  *)
(* the usage is whole and what stays open has a cause. They follow from    *)
(* one inductive invariant, LoopInv, of which each part says what the      *)
(* request has done at each place of the loop.                             *)
(***************************************************************************)
EXTENDS ToolLoop, LibraryLemmas

Id == Nat \X Nat
Kinds == {"tool", "tool_result", "function_call_output"}
Result == [kind : Kinds, id : Id, text : {"text", "tool_error"}]
ToolRound == [calls : Seq(Id), results : Seq(Result)]
Usage == [in : Nat, out : Nat]

Before == {"guard", "prepare", "enter"}
Over == {"exit", "done"}

Failures == {"guardrail_403", "guardrail_502", "guardrail_500", "failed", "rejected", "unreachable", "cancelled",
             "upstream_error", "iterations_exceeded"}
Answers == [end : Failures \cup {"none", "answer"}, calls : SUBSET Id, terminals : Nat]
Clients == [client : BOOLEAN, session : BOOLEAN, linked : Nat]
Requests == [fmt : {"none", "chat", "messages", "responses"}, stream : BOOLEAN,
             backend : Backends \cup {"none"}]

TalkTypes ==
    /\ round \in Nat /\ locked \in {0, 1}
    /\ reply.calls \in Seq(Tools)
    /\ todo \in Seq(Id) /\ ran \in Seq(Id) /\ fed \in Seq(ToolRound)
    /\ acc \in Usage /\ spent \in Usage /\ seen \in Usage

Types ==
    /\ pc \in Before \cup {"ask", "reply", "run", "mixed"} \cup Over
    /\ flagged \in BOOLEAN /\ refused \in BOOLEAN
    /\ rq \in Requests /\ res \in Clients /\ out \in Answers
    /\ TalkTypes

\* What a place of the loop says of the request on its own.
Places ==
    /\ out.end # "none" => pc \in Over
    /\ pc \in Before => round = 0 /\ ran = <<>> /\ fed = <<>>
    /\ rq.stream => pc # "mixed"

\* A request that a guardrail refuses has asked no provider.
GuardPart ==
    /\ pc = "guard" => refused = flagged
    /\ refused => pc \in {"guard", "done"} /\ round = 0
    /\ out.end \in {"guardrail_403", "guardrail_502"} => refused
    /\ "uncaught_guardrail" \in why => pc = "done" /\ round = 0
    /\ out.end = "guardrail_500" <=> "uncaught_guardrail" \in why

\* What is open at each place, and why it still is at the end.
OpenPart ==
    /\ pc \in {"guard", "prepare"} => ~res.client
    /\ pc \in Before => ~res.session
    /\ pc = "enter" /\ rq.backend # "mcp" => ~res.client
    /\ pc # "done" /\ rq.backend # "sandbox" => ~res.session
    /\ LeftOpenHasCause

\* The totals hold what the rounds before this reply reported.
Settled == acc.out + (IF pc = "reply" /\ reply.usage # "absent" THEN 1 ELSE 0)
UsagePart ==
    /\ pc \in Before => acc = Zero /\ spent = Zero
    /\ pc \notin Over /\ ~rq.stream => acc.in = acc.out /\ spent.in = spent.out /\ spent.out = Settled
    /\ pc \notin Over /\ rq.stream /\ rq.fmt # "chat" /\ "uncompleted" \notin why =>
         spent.out = Settled
    /\ pc = "reply" => reply.usage \in {"with", "apart", "absent"}
    /\ pc = "reply" /\ reply.usage = "apart" =>
         rq.stream /\ rq.fmt # "messages" /\ (rq.fmt = "chat" \/ reply.ends = <<>>)
    /\ UsageIsWhole

\* Which calls have run, and which the gateway still has to run.
Now(id) == id[1] = round
DispatchPart ==
    /\ Once(ran) /\ \A id \in ToSet(ran) : id[1] <= round
    /\ pc = "reply" => round > 0 /\ \A id \in ToSet(ran) : ~Now(id)
    /\ pc \in {"run", "mixed"} =>
         /\ round > 0 /\ Once(todo)
         /\ \A id \in ToSet(todo) : id \notin ToSet(ran) /\ Now(id)
         /\ \A id : id \in ToSet(Owned) <=> id \in ToSet(todo) \/ (id \in ToSet(ran) /\ Now(id))
    /\ (round > 0 \/ ran # <<>>) /\ ~rq.stream => locked = 1
    /\ out.end = "answer" => out.calls = ToSet(Ids(reply)) \ ToSet(ran)

\* The conversation: every round but the one that runs has a result for every
\* call, and the one that runs has them for the calls that are not still to do.
Paired(f) == [i \in DOMAIN f.results |-> f.results[i].id] = f.calls
Pairing(f) ==
    /\ f.calls = Owned
    /\ Len(Owned) = Len(f.results) + Len(todo)
    /\ \A i \in 1 .. Len(f.results) : f.results[i].id = Owned[i]
    /\ \A j \in 1 .. Len(todo) : todo[j] = Owned[Len(f.results) + j]
TranscriptPart ==
    /\ pc = "ask" => Len(fed) = round /\ \A k \in 1 .. Len(fed) : Paired(fed[k])
    /\ pc = "reply" => Len(fed) = round - 1 /\ \A k \in 1 .. Len(fed) : Paired(fed[k])
    /\ pc = "run" => /\ Len(fed) = round /\ Pairing(fed[round])
                     /\ \A k \in 1 .. round : k < round => Paired(fed[k])

\* What the proofs carry from step to step.
LoopInv == Types /\ Places /\ GuardPart /\ OpenPart /\ UsagePart /\ DispatchPart /\ TranscriptPart

-----------------------------------------------------------------------------
(***************************************************************************)
(* Small facts the steps share.                                            *)
(***************************************************************************)

LEMMA TalkKept == ASSUME TalkTypes, UNCHANGED talking PROVE TalkTypes'
  BY DEF TalkTypes, talking

\* The faults that explain a client, and those that explain a session.
LEMMA Causes ==
  ASSUME NEW W, NEW f
  PROVE  /\ f \in Escapes => (W \cup {f}) \cap Escapes # {}
         /\ f \in Escapes \cup {"answer_lost", "delete_failed"} =>
              (W \cup {f}) \cap (Escapes \cup {"answer_lost", "delete_failed"}) # {}
  OBVIOUS

\* The parts that speak of the conversation.
TalkPart == UsagePart /\ DispatchPart /\ TranscriptPart

\* The request ends without an answer.
LEMMA Stops ==
  ASSUME LoopInv, UNCHANGED <<talking, rq>>, pc' \in Over,
         NEW e \in Failures, out' = [out EXCEPT !.end = e]
  PROVE  out' \in Answers /\ out'.end = e /\ TalkPart'
  <1>1. out' \in Answers /\ out'.end = e
    BY DEF LoopInv, Types, Answers
  <1>0. e # "answer" /\ e # "none"
    BY DEF Failures
  <1>2. UsagePart'
    BY <1>0, <1>1 DEF LoopInv, UsagePart, UsageIsWhole, Before, Over
  <1>3. DispatchPart'
    BY <1>0, <1>1 DEF LoopInv, DispatchPart, Now, Before, Over, talking
  <1>4. TranscriptPart'
    BY DEF TranscriptPart, Over
  <1> QED BY <1>1, <1>2, <1>3, <1>4 DEF TalkPart

\* The request goes on towards its first provider call.
LEMMA Moves ==
  ASSUME LoopInv, UNCHANGED <<talking, out>>, pc \in Before, pc' \in Before \cup {"ask"}
  PROVE  TalkPart'
  <1>1. /\ round = 0 /\ ran = <<>> /\ fed = <<>> /\ out.end = "none"
        /\ acc = Zero /\ spent = Zero /\ Once(ran)
    BY DEF LoopInv, Places, UsagePart, DispatchPart, Before, Over
  <1>2. UsagePart'
    BY <1>1 DEF UsagePart, UsageIsWhole, Settled, Zero, Before, Over, talking
  <1>3. DispatchPart'
    <2>1. ToSet(ran) = {}
      BY <1>1, EmptyOnce
    <2> QED BY <1>1, <2>1 DEF DispatchPart, Before, talking
  <1>4. TranscriptPart'
    BY <1>1 DEF TranscriptPart, Before, talking
  <1> QED BY <1>2, <1>3, <1>4 DEF TalkPart

\* The backend is left.
LEMMA Closes ==
  ASSUME LoopInv, UNCHANGED <<talking, rq, out>>, pc \in Over, pc' \in Over, why \subseteq why'
  PROVE  TalkPart'
  <1>1. UsagePart'
    BY DEF LoopInv, UsagePart, UsageIsWhole, Before, Over, talking
  <1>2. DispatchPart'
    <2>1. Ids(reply)' = Ids(reply)
      BY DEF Ids, talking
    <2> QED BY <2>1 DEF LoopInv, DispatchPart, Now, Before, Over, talking
  <1>3. TranscriptPart'
    BY DEF TranscriptPart, Over
  <1> QED BY <1>1, <1>2, <1>3 DEF TalkPart

-----------------------------------------------------------------------------
(***************************************************************************)
(* Guardrails and the choice of the backend.                               *)
(***************************************************************************)

LEMMA RunGuardrailKeeps == ASSUME LoopInv, RunGuardrail PROVE LoopInv'
  <1>0. TalkTypes' /\ Types /\ Places
    BY TalkKept DEF LoopInv, Types, RunGuardrail
  <1>1. \/ /\ pc' = "guard" /\ out' = out /\ TalkPart'
           /\ why' = why
        \/ /\ pc' = "done" /\ out' \in Answers /\ TalkPart'
           /\ \/ out'.end = "guardrail_502" /\ refused' /\ why' = why
              \/ out'.end = "guardrail_500" /\ why' = why \cup {"uncaught_guardrail"}
    <2>1. PICK mode \in {"block", "monitor"},
               answer \in {"valid", "invalid", "inconclusive", "malformed", "unreachable", "no_object"} :
            /\ refused' = (refused \/ (mode = "block" /\ Verdict(answer) \in {"invalid", "error", "raises"}))
            /\ why' = IF Verdict(answer) = "raises" THEN why \cup {"uncaught_guardrail"} ELSE why
            /\ IF Verdict(answer) = "raises" \/ (mode = "block" /\ Verdict(answer) = "error")
               THEN /\ pc' = "done"
                    /\ out' = [out EXCEPT !.end = IF Verdict(answer) = "raises" THEN "guardrail_500"
                                                                             ELSE "guardrail_502"]
               ELSE UNCHANGED <<pc, out>>
      BY DEF RunGuardrail
    <2>2. pc = "guard" /\ UNCHANGED <<talking, rq>>
      BY DEF RunGuardrail
    <2>3. CASE Verdict(answer) = "raises"
      <3>1. out' = [out EXCEPT !.end = "guardrail_500"] /\ pc' = "done"
        BY <2>1, <2>3
      <3> QED BY <2>1, <2>2, <2>3, <3>1, Stops DEF Over, Failures
    <2>4. CASE Verdict(answer) # "raises" /\ mode = "block" /\ Verdict(answer) = "error"
      <3>1. out' = [out EXCEPT !.end = "guardrail_502"] /\ pc' = "done" /\ refused'
        BY <2>1, <2>4
      <3> QED BY <2>1, <2>2, <2>4, <3>1, Stops DEF Over, Failures
    <2>5. CASE ~(Verdict(answer) = "raises" \/ (mode = "block" /\ Verdict(answer) = "error"))
      BY <2>1, <2>2, <2>5, Moves DEF Before
    <2> QED BY <2>3, <2>4, <2>5
  <1>2. refused' \in BOOLEAN /\ flagged' \in BOOLEAN /\ (refused => refused')
    BY <1>0 DEF Types, RunGuardrail
  <1>3. pc' = "guard" => refused' = flagged'
    BY <1>0, <1>1, <1>2 DEF LoopInv, GuardPart, RunGuardrail, Verdict
  <1>4. Types'
    BY <1>0, <1>1, <1>2, <1>3 DEF Types, Clients, Before, Over, RunGuardrail
  <1>5. Places' /\ GuardPart'
    BY <1>0, <1>1, <1>2, <1>3 DEF LoopInv, Places, GuardPart, Before, Over, RunGuardrail, talking
  <1>6. OpenPart'
    BY <1>0, <1>1, <1>2, <1>3 DEF LoopInv, Types, Clients, OpenPart, LeftOpenHasCause, Before, Over, RunGuardrail
  <1> QED BY <1>1, <1>4, <1>5, <1>6 DEF LoopInv, TalkPart

LEMMA ApplyGuardrailsKeeps == ASSUME LoopInv, ApplyGuardrails PROVE LoopInv'
  <1>0. TalkTypes' /\ Types /\ Places
    BY TalkKept DEF LoopInv, Types, ApplyGuardrails
  <1>1. \/ /\ pc' = "prepare" /\ out' = out /\ TalkPart' /\ ~flagged
        \/ /\ pc' = "done" /\ out' \in Answers /\ TalkPart' /\ out'.end = "guardrail_403" /\ flagged
    BY Stops, Moves DEF ApplyGuardrails, Before, Over, Failures
  <1>2. Types'
    BY <1>0, <1>1 DEF Types, Clients, Before, Over, ApplyGuardrails, guarding
  <1>3. Places' /\ GuardPart'
    BY <1>0, <1>1 DEF LoopInv, Places, GuardPart, Before, Over, ApplyGuardrails, talking, guarding
  <1>4. OpenPart'
    BY <1>0, <1>1 DEF LoopInv, Types, Clients, OpenPart, LeftOpenHasCause, Before, Over, ApplyGuardrails, guarding
  <1> QED BY <1>1, <1>2, <1>3, <1>4 DEF LoopInv, TalkPart

LEMMA PrepareToolsKeeps == ASSUME LoopInv, PrepareTools PROVE LoopInv'
  <1>0. TalkTypes' /\ Types /\ Places
    BY TalkKept DEF LoopInv, Types, PrepareTools
  <1>1. \/ /\ pc' = "enter" /\ out' = out /\ TalkPart' /\ rq' \in Requests
        \/ /\ pc' = "done" /\ out' \in Answers /\ TalkPart' /\ out'.end = "rejected" /\ rq' = rq
    <2>1. pc \in Before /\ UNCHANGED talking
      BY DEF PrepareTools, Before
    <2>2. CASE pc' = "enter" /\ out' = out
      <3>1. PICK asked \in SUBSET Backends \ {{}}, fmt \in {"chat", "messages", "responses"}, s \in BOOLEAN :
               rq' = [fmt |-> fmt, stream |-> s, backend |-> CHOOSE b \in asked : TRUE]
        BY <2>2 DEF PrepareTools
      <3>2. rq' \in Requests
        BY <3>1 DEF Requests
      <3> QED BY <2>1, <2>2, <3>2, Moves DEF Before
    <2>3. CASE pc' = "done" /\ out' = [out EXCEPT !.end = "rejected"] /\ rq' = rq
      BY <2>1, <2>3, Stops DEF Over, Failures
    <2> QED BY <2>2, <2>3 DEF PrepareTools
  <1>9. UNCHANGED <<flagged, refused, res, why, talking>> /\ pc = "prepare"
    BY DEF PrepareTools
  <1>2. Types'
    BY <1>0, <1>1, <1>9 DEF Types, Clients, Before, Over
  <1>3. Places' /\ GuardPart'
    BY <1>0, <1>1, <1>9 DEF LoopInv, Places, GuardPart, Before, Over, talking
  <1>4. OpenPart'
    BY <1>0, <1>1, <1>9 DEF LoopInv, Types, Clients, OpenPart, LeftOpenHasCause, Before, Over
  <1> QED BY <1>1, <1>2, <1>3, <1>4 DEF LoopInv, TalkPart

-----------------------------------------------------------------------------
(***************************************************************************)
(* Entering the backend.                                                   *)
(***************************************************************************)

LEMMA ConnectKeeps == ASSUME LoopInv, Connect PROVE LoopInv'
  <1>0. TalkTypes' /\ Types /\ Places
    BY TalkKept DEF LoopInv, Types, Connect
  <1>1. TalkPart' /\ res' \in Clients /\ ~res'.session /\ out' = out
    <2>1. TalkPart'
      BY Moves DEF Connect, Before
    <2>2. res' \in Clients /\ res'.session = res.session
      <3>1. res' = [res EXCEPT !.client = TRUE, !.linked = @ + 1] /\ res \in Clients
        BY <1>0 DEF Connect, Types
      <3>2. PICK n \in Nat : n = res.linked + 1
        BY <3>1 DEF Clients
      <3>3. res' = [res EXCEPT !.client = TRUE, !.linked = n]
        BY <3>1, <3>2
      <3> QED BY <3>1, <3>3 DEF Clients
    <2> QED BY <2>1, <2>2 DEF LoopInv, OpenPart, Connect, Before
  <1>2. Types'
    BY <1>0, <1>1 DEF Types, Clients, Before, Over, Connect, guarding
  <1>3. Places' /\ GuardPart'
    BY <1>0, <1>1 DEF LoopInv, Places, GuardPart, Before, Over, Connect, talking, guarding
  <1>4. OpenPart'
    BY <1>0, <1>1 DEF LoopInv, Types, Clients, OpenPart, LeftOpenHasCause, Before, Over, Connect, guarding
  <1> QED BY <1>1, <1>2, <1>3, <1>4 DEF LoopInv, TalkPart

LEMMA ConnectFailsKeeps == ASSUME LoopInv, ConnectFails PROVE LoopInv'
  <1>0. TalkTypes' /\ Types /\ Places
    BY TalkKept DEF LoopInv, Types, ConnectFails
  <1>1. TalkPart' /\ out' \in Answers /\ out'.end = "unreachable"
    BY Stops DEF ConnectFails, Over, Failures
  <1>2. Types'
    BY <1>0, <1>1 DEF Types, Clients, Before, Over, ConnectFails, guarding
  <1>3. Places' /\ GuardPart'
    BY <1>0, <1>1 DEF LoopInv, Places, GuardPart, Before, Over, ConnectFails, talking, guarding
  <1>4. OpenPart'
    BY <1>0, <1>1 DEF LoopInv, Types, Clients, OpenPart, LeftOpenHasCause, Before, Over, ConnectFails, guarding
  <1> QED BY <1>1, <1>2, <1>3, <1>4 DEF LoopInv, TalkPart

LEMMA ConnectedKeeps == ASSUME LoopInv, Connected PROVE LoopInv'
  <1>0. TalkTypes' /\ Types /\ Places
    BY TalkKept DEF LoopInv, Types, Connected
  <1>1. TalkPart'
    BY Moves DEF Connected, Before
  <1>2. Types'
    BY <1>0, <1>1 DEF Types, Clients, Before, Over, Connected, guarding
  <1>3. Places' /\ GuardPart'
    BY <1>0, <1>1 DEF LoopInv, Places, GuardPart, Before, Over, Connected, talking, guarding
  <1>4. OpenPart'
    BY <1>0, <1>1 DEF LoopInv, Types, Clients, OpenPart, LeftOpenHasCause, Before, Over, Connected, guarding
  <1> QED BY <1>1, <1>2, <1>3, <1>4 DEF LoopInv, TalkPart

LEMMA EnterSandboxKeeps == ASSUME LoopInv, EnterSandbox PROVE LoopInv'
  <1>0. TalkTypes' /\ Types /\ Places
    BY TalkKept DEF LoopInv, Types, EnterSandbox
  <1>1. pc = "enter" /\ rq.backend = "sandbox" /\ UNCHANGED <<guarding, rq, talking>>
    BY DEF EnterSandbox
  <1>2. ~res.client /\ ~res.session /\ res \in Clients
    BY <1>1 DEF LoopInv, OpenPart, Types, Before
  <1>3. CASE pc' = "ask" /\ res' = [res EXCEPT !.client = TRUE, !.session = TRUE] /\ UNCHANGED <<out, why>>
    <2>1. TalkPart' /\ res' \in Clients
      BY <1>1, <1>2, <1>3, Moves DEF Before, Clients
    <2>2. Types' /\ Places' /\ GuardPart'
      BY <1>0, <1>1, <1>3, <2>1 DEF LoopInv, Types, Places, GuardPart, Before, Over, guarding
    <2>3. OpenPart'
      BY <1>1, <1>3 DEF OpenPart, LeftOpenHasCause, Before
    <2> QED BY <2>1, <2>2, <2>3 DEF LoopInv, TalkPart
  <1>4. ASSUME NEW made \in BOOLEAN, pc' = "done", res' = [res EXCEPT !.session = made],
               out' = [out EXCEPT !.end = "unreachable"],
               why' = IF made THEN why \cup {"answer_lost"} ELSE why
        PROVE  LoopInv'
    <2>1. TalkPart' /\ out' \in Answers /\ out'.end = "unreachable"
      BY <1>1, <1>4, Stops DEF Over, Failures
    <2>2. res' \in Clients /\ ~res'.client
      BY <1>2, <1>4 DEF Clients
    <2>3. Types' /\ Places' /\ GuardPart'
      BY <1>0, <1>1, <1>4, <2>1, <2>2 DEF LoopInv, Types, Places, GuardPart, Before, Over, guarding
    <2>4. OpenPart'
      <3>1. CASE made = TRUE
        <4>1. why' \cap (Escapes \cup {"answer_lost", "delete_failed"}) # {}
          BY <1>4, <3>1
        <4> QED BY <1>4, <2>2, <4>1 DEF OpenPart, LeftOpenHasCause, Before
      <3>2. CASE made = FALSE
        <4>1. ~res'.session
          BY <1>2, <1>4, <3>2 DEF Clients
        <4> QED BY <1>4, <2>2, <4>1 DEF OpenPart, LeftOpenHasCause, Before
      <3> QED BY <3>1, <3>2
    <2> QED BY <2>1, <2>3, <2>4 DEF LoopInv, TalkPart
  <1>5. ASSUME NEW made \in BOOLEAN, pc' = "done",
               res' = [res EXCEPT !.client = TRUE, !.session = made],
               NEW end \in {"cancelled", "failed"}, out' = [out EXCEPT !.end = end],
               NEW f \in {"cancelled_entering", "session_no_object"}, why' = why \cup {f}
        PROVE  LoopInv'
    <2>1. TalkPart' /\ out' \in Answers /\ out'.end = end
      BY <1>1, <1>5, Stops DEF Over, Failures
    <2>2. res' \in Clients
      BY <1>2, <1>5 DEF Clients
    <2>3. Types' /\ Places' /\ GuardPart'
      BY <1>0, <1>1, <1>5, <2>1, <2>2 DEF LoopInv, Types, Places, GuardPart, Before, Over, guarding
    <2>4. OpenPart'
      <3>1. f \in Escapes
        BY DEF Escapes
      <3> QED BY <1>5, <3>1, Causes DEF OpenPart, LeftOpenHasCause, Before
    <2> QED BY <2>1, <2>3, <2>4 DEF LoopInv, TalkPart
  <1> QED BY <1>3, <1>4, <1>5 DEF EnterSandbox

LEMMA EnterWebSearchKeeps == ASSUME LoopInv, EnterWebSearch PROVE LoopInv'
  <1>0. TalkTypes' /\ Types /\ Places
    BY TalkKept DEF LoopInv, Types, EnterWebSearch
  <1>1. TalkPart'
    BY Moves DEF EnterWebSearch, Before
  <1>2. Types'
    BY <1>0, <1>1 DEF Types, Clients, Before, Over, EnterWebSearch, guarding
  <1>3. Places' /\ GuardPart'
    BY <1>0, <1>1 DEF LoopInv, Places, GuardPart, Before, Over, EnterWebSearch, talking, guarding
  <1>4. OpenPart'
    BY <1>0, <1>1 DEF LoopInv, Types, Clients, OpenPart, LeftOpenHasCause, Before, Over, EnterWebSearch, guarding
  <1> QED BY <1>1, <1>2, <1>3, <1>4 DEF LoopInv, TalkPart

LEMMA NeverPulledKeeps == ASSUME LoopInv, NeverPulled PROVE LoopInv'
  <1>0. TalkTypes' /\ Types /\ Places
    BY TalkKept DEF LoopInv, Types, NeverPulled
  <1>1. TalkPart' /\ out' \in Answers /\ out'.end = "cancelled"
    BY Stops DEF NeverPulled, Over, Failures
  <1>2. Types'
    BY <1>0, <1>1 DEF Types, Clients, Before, Over, NeverPulled, guarding
  <1>3. Places' /\ GuardPart'
    BY <1>0, <1>1 DEF LoopInv, Places, GuardPart, Before, Over, NeverPulled, talking, guarding
  <1>4. OpenPart'
    BY Causes, <1>0, <1>1 DEF LoopInv, Types, Clients, OpenPart, LeftOpenHasCause, Before, Over, Escapes, NeverPulled, guarding
  <1> QED BY <1>1, <1>2, <1>3, <1>4 DEF LoopInv, TalkPart

-----------------------------------------------------------------------------
(***************************************************************************)
(* The ends of the loop, and leaving the backend.                          *)
(***************************************************************************)

LEMMA AskFailsKeeps == ASSUME LoopInv, AskFails PROVE LoopInv'
  <1>0. TalkTypes' /\ Types /\ Places
    BY TalkKept DEF LoopInv, Types, AskFails, Leave
  <1>1. TalkPart' /\ out' \in Answers /\ out'.end = "upstream_error"
    BY Stops DEF AskFails, Leave, Over, Failures
  <1>2. Types'
    BY <1>0, <1>1 DEF Types, Clients, Before, Over, AskFails, Leave, guarding
  <1>3. Places' /\ GuardPart'
    BY <1>0, <1>1 DEF LoopInv, Places, GuardPart, Before, Over, AskFails, talking, Leave, guarding
  <1>4. OpenPart'
    BY <1>0, <1>1 DEF LoopInv, Types, Clients, OpenPart, LeftOpenHasCause, Before, Over, AskFails, Leave, guarding
  <1> QED BY <1>1, <1>2, <1>3, <1>4 DEF LoopInv, TalkPart

LEMMA IterationsExceededKeeps == ASSUME LoopInv, IterationsExceeded PROVE LoopInv'
  <1>0. TalkTypes' /\ Types /\ Places
    BY TalkKept DEF LoopInv, Types, IterationsExceeded, Leave
  <1>1. TalkPart' /\ out' \in Answers /\ out'.end = "iterations_exceeded"
    BY Stops DEF IterationsExceeded, Leave, Over, Failures
  <1>2. Types'
    BY <1>0, <1>1 DEF Types, Clients, Before, Over, IterationsExceeded, Leave, guarding
  <1>3. Places' /\ GuardPart'
    BY <1>0, <1>1 DEF LoopInv, Places, GuardPart, Before, Over, IterationsExceeded, talking, Leave, guarding
  <1>4. OpenPart'
    BY <1>0, <1>1 DEF LoopInv, Types, Clients, OpenPart, LeftOpenHasCause, Before, Over, IterationsExceeded, Leave, guarding
  <1> QED BY <1>1, <1>2, <1>3, <1>4 DEF LoopInv, TalkPart

LEMMA CancelKeeps == ASSUME LoopInv, Cancel PROVE LoopInv'
  <1>0. TalkTypes' /\ Types /\ Places
    BY TalkKept DEF LoopInv, Types, Cancel, Leave
  <1>1. TalkPart' /\ out' \in Answers /\ out'.end = "cancelled"
    BY Stops DEF Cancel, Leave, Over, Failures
  <1>2. Types'
    BY <1>0, <1>1 DEF Types, Clients, Before, Over, Cancel, Leave, guarding
  <1>3. Places' /\ GuardPart'
    BY <1>0, <1>1 DEF LoopInv, Places, GuardPart, Before, Over, Cancel, talking, Leave, guarding
  <1>4. OpenPart'
    BY <1>0, <1>1 DEF LoopInv, Types, Clients, OpenPart, LeftOpenHasCause, Before, Over, Cancel, Leave, guarding
  <1> QED BY <1>1, <1>2, <1>3, <1>4 DEF LoopInv, TalkPart

LEMMA ExitClientKeeps == ASSUME LoopInv, ExitClient PROVE LoopInv'
  <1>0. TalkTypes' /\ Types /\ Places
    BY TalkKept DEF LoopInv, Types, ExitClient
  <1>1. TalkPart'
    BY Closes DEF ExitClient, Over
  <1>2. Types'
    BY <1>0, <1>1 DEF Types, Clients, Before, Over, ExitClient, guarding
  <1>3. Places' /\ GuardPart'
    BY <1>0, <1>1 DEF LoopInv, Places, GuardPart, Before, Over, ExitClient, talking, guarding
  <1>4. OpenPart'
    BY <1>0, <1>1 DEF LoopInv, Types, Clients, OpenPart, LeftOpenHasCause, Before, Over, ExitClient, guarding
  <1> QED BY <1>1, <1>2, <1>3, <1>4 DEF LoopInv, TalkPart

LEMMA ExitSandboxKeeps == ASSUME LoopInv, ExitSandbox PROVE LoopInv'
  <1>0. TalkTypes' /\ Types /\ Places
    BY TalkKept DEF LoopInv, Types, ExitSandbox
  <1>1. TalkPart' /\ pc = "exit" /\ pc' = "done" /\ UNCHANGED <<guarding, rq, talking, out>>
    BY Closes DEF ExitSandbox, Over
  <1>2. \/ res' = [res EXCEPT !.session = FALSE, !.client = FALSE] /\ UNCHANGED why
        \/ res' = [res EXCEPT !.client = FALSE] /\ why' = why \cup {"delete_failed"}
        \/ \E gone \in BOOLEAN : res' = [res EXCEPT !.session = ~gone] /\ why' = why \cup {"cancelled_leaving"}
    BY DEF ExitSandbox
  <1>3. res' \in Clients
    BY <1>0, <1>2 DEF Types, Clients
  <1>4. Types'
    BY <1>0, <1>1, <1>2, <1>3 DEF Types, Clients, Before, Over, guarding
  <1>5. Places' /\ GuardPart'
    BY <1>0, <1>1, <1>2, <1>3 DEF LoopInv, Places, GuardPart, Before, Over, talking, guarding
  <1>6. OpenPart'
    <2>1. /\ ~res'.client \/ "cancelled_leaving" \in why'
          /\ res'.session => {"delete_failed", "cancelled_leaving"} \cap why' # {}
      BY <1>0, <1>2 DEF Types, Clients
    <2>2. LeftOpenHasCause'
      BY <2>1 DEF LeftOpenHasCause, Escapes
    <2> QED BY <1>1, <2>2 DEF OpenPart, Before
  <1> QED BY <1>1, <1>4, <1>5, <1>6 DEF LoopInv, TalkPart

-----------------------------------------------------------------------------
(***************************************************************************)
(* One provider call.                                                      *)
(***************************************************************************)
LEMMA RepliesType ==
  ASSUME Types, NEW r \in Replies
  PROVE  /\ r.calls \in Seq(Tools)
         /\ ~rq.stream => r.usage \in {"with", "absent"}
         /\ rq.stream /\ rq.fmt = "messages" => r.usage \in {"with", "absent"}
         /\ r.usage \in {"with", "apart", "absent"}
  <1>1. r.calls \in SeqOf(Tools, MaxCalls) /\ r.usage \in Usages
    BY DEF Replies
  <1>2. PICK m \in 0 .. MaxCalls : r.calls \in [1 .. m -> Tools]
    BY <1>1 DEF SeqOf
  <1>3. r.calls \in Seq(Tools)
    BY <1>2, ToolLoopAssumption, IsASeq
  <1> QED BY <1>1, <1>3 DEF Usages

LEMMA AskKeeps == ASSUME LoopInv, Ask PROVE LoopInv'
  <1>0. Types /\ Places /\ pc = "ask" /\ pc' = "reply" /\ out.end = "none"
    BY DEF LoopInv, Places, Ask, Over
  <1>1. PICK r \in Replies :
          /\ r.usage = "apart" => (rq.fmt = "chat" \/ r.ends = <<>>)
          /\ r.usage = "with" => r.ends # <<>>
          /\ reply' = r
          /\ spent' = IF r.usage = "absent" THEN spent
                      ELSE [in |-> spent.in + 1, out |-> spent.out + 1]
          /\ seen' = IF ~rq.stream \/ r.usage = "absent" THEN seen
                     ELSE IF rq.fmt = "messages" THEN [seen EXCEPT !.in = 1]
                     ELSE IF r.usage = "apart" THEN [in |-> 1, out |-> 1] ELSE seen
          /\ out' = [out EXCEPT !.terminals =
                       @ + IF rq.stream /\ rq.fmt = "responses" /\ r.usage = "apart" THEN 1 ELSE 0]
    BY DEF Ask
  <1>2. /\ r.calls \in Seq(Tools)
        /\ ~rq.stream => r.usage \in {"with", "absent"}
        /\ rq.stream /\ rq.fmt = "messages" => r.usage \in {"with", "absent"}
        /\ r.usage \in {"with", "apart", "absent"}
    BY <1>0, RepliesType
  <1>3. UNCHANGED <<guarding, rq, owner, res, todo, fed, ran, acc, why>> /\ round' = round + 1
    BY DEF Ask
  <1>4. spent' \in Usage /\ spent \in Usage /\ spent'.out = spent.out + (IF r.usage # "absent" THEN 1 ELSE 0)
        /\ spent'.in = spent.in + (IF r.usage # "absent" THEN 1 ELSE 0)
    <2>1. spent \in Usage
      BY <1>0 DEF Types, TalkTypes
    <2> QED BY <1>1, <2>1 DEF Usage
  <1>5. seen' \in Usage
    <2>1. seen \in Usage
      BY <1>0 DEF Types, TalkTypes
    <2> QED BY <1>1, <2>1 DEF Usage
  <1>6. out' \in Answers /\ out'.end = "none"
    <2>1. PICK n \in Nat : out' = [out EXCEPT !.terminals = n]
      <3>1. out.terminals \in Nat
        BY <1>0 DEF Types, Answers
      <3>2. out.terminals + (IF rq.stream /\ rq.fmt = "responses" /\ r.usage = "apart" THEN 1 ELSE 0) \in Nat
        BY <3>1
      <3> QED BY <1>1, <3>2
    <2> QED BY <1>0, <2>1 DEF Types, Answers
  <1>7. locked' \in {0, 1} /\ (~rq.stream => locked' = 1) /\ round \in Nat
    BY <1>0 DEF Ask, Types, TalkTypes
  <1>8. Types'
    <2>1. TalkTypes'
      BY <1>0, <1>1, <1>2, <1>3, <1>4, <1>5, <1>7 DEF Types, TalkTypes
    <2> QED BY <1>0, <1>3, <1>6, <2>1 DEF Types, guarding
  <1>9. Places' /\ GuardPart'
    <2>1. ~refused
      BY <1>0 DEF LoopInv, GuardPart
    <2> QED BY <1>0, <1>3, <1>6, <2>1 DEF LoopInv, Places, GuardPart, Before, guarding
  <1>10. OpenPart'
    BY <1>0, <1>3 DEF LoopInv, OpenPart, LeftOpenHasCause, Before
  <1>11. UsagePart'
    <2>1. acc.out \in Nat
      BY <1>0 DEF Types, TalkTypes, Usage
    <2>2. spent.out = acc.out => spent'.out = Settled'
      BY <1>0, <1>1, <1>3, <1>4, <2>1 DEF Settled
    <2>3. /\ ~rq.stream => acc.in = acc.out /\ spent.in = spent.out /\ spent.out = acc.out
          /\ rq.stream /\ rq.fmt # "chat" /\ "uncompleted" \notin why => spent.out = acc.out
      BY <1>0, <2>1 DEF LoopInv, UsagePart, Settled, Over
    <2>4. ~rq.stream => spent'.in = spent'.out
      BY <1>4, <2>3
    <2> QED BY <1>0, <1>1, <1>2, <1>3, <1>6, <2>2, <2>3, <2>4 DEF UsagePart, UsageIsWhole, Before, Over
  <1>12. DispatchPart'
    <2>1. ran \in Seq(Id) /\ ToSet(ran) \subseteq Id
      BY <1>0, InToSet DEF Types, TalkTypes
    <2>2. \A id \in ToSet(ran) : id[1] \in Nat /\ id[1] <= round
      BY <1>0, <2>1 DEF LoopInv, DispatchPart, Id
    <2>3. \A id \in ToSet(ran) : id[1] <= round' /\ id[1] # round'
      BY <1>3, <1>7, <2>2
    <2> QED BY <1>0, <1>3, <1>6, <1>7, <2>3 DEF LoopInv, DispatchPart, Now
  <1>13. TranscriptPart'
    <2>1. Len(fed)' = round' - 1
      BY <1>0, <1>3, <1>7 DEF LoopInv, TranscriptPart
    <2> QED BY <1>0, <1>3, <2>1 DEF LoopInv, TranscriptPart, Paired
  <1> QED BY <1>8, <1>9, <1>10, <1>11, <1>12, <1>13 DEF LoopInv

-----------------------------------------------------------------------------
(***************************************************************************)
(* The loops.                                                              *)
(***************************************************************************)
LEMMA OwnedFacts ==
  ASSUME Types
  PROVE  /\ Owned \in Seq(Id) /\ Once(Owned) /\ \A id \in ToSet(Owned) : Now(id)
         /\ ToSet(Ids(reply)) \subseteq Id /\ \A id \in ToSet(Ids(reply)) : Now(id)
  <1> DEFINE n == Len(reply.calls)
             parts == [i \in 1 .. n |-> IF Owns(reply.calls[i]) THEN <<<<round, i>>>> ELSE <<>>]
  <1>1. n \in Nat /\ round \in Nat
    BY DEF Types, TalkTypes
  <1>2. \A i \in 1 .. n : <<round, i>> \in Id
    BY <1>1 DEF Id
  <1>3. ASSUME NEW i \in 1 .. n
        PROVE  /\ parts[i] \in Seq(Id) /\ Once(parts[i])
               /\ \A x \in ToSet(parts[i]) : x = <<round, i>>
    <2>1. <<<<round, i>>>> \in Seq(Id) /\ Len(<<<<round, i>>>>) = 1 /\ <<<<round, i>>>>[1] = <<round, i>>
      BY <1>2
    <2>2. Once(<<<<round, i>>>>)
      BY <2>1 DEF Once
    <2>3. \A x \in ToSet(<<<<round, i>>>>) : x = <<round, i>>
      BY <2>1 DEF ToSet
    <2>4. CASE parts[i] = <<<<round, i>>>>
      BY <2>1, <2>2, <2>3, <2>4
    <2>5. CASE parts[i] = <<>>
      BY <2>5, EmptyOnce
    <2> QED BY <2>4, <2>5
  <1>4. parts \in Seq(Seq(Id)) /\ Len(parts) = n
    <2>1. parts \in [1 .. n -> Seq(Id)]
      BY <1>3
    <2> QED BY <1>1, <2>1, IsASeq
  <1> HIDE DEF parts, n
  <1>5. \A i, j \in 1 .. Len(parts) : Once(parts[i]) /\ (i # j => Apart(parts[i], parts[j]))
    <2>1. SUFFICES ASSUME NEW i \in 1 .. n, NEW j \in 1 .. n
                   PROVE  Once(parts[i]) /\ (i # j => Apart(parts[i], parts[j]))
      BY <1>4
    <2>2. i # j => <<round, i>> # <<round, j>>
      OBVIOUS
    <2>3. \A x \in ToSet(parts[i]), y \in ToSet(parts[j]) : i # j => x # y
      BY <1>3, <2>2
    <2> QED BY <1>3, <2>3 DEF Apart
  <1>6. Once(FlattenSeq(parts)) /\ FlattenSeq(parts) \in Seq(Id)
    BY <1>4, <1>5, FlattenElements, FlattenType
  <1>7. ASSUME NEW x \in ToSet(FlattenSeq(parts)) PROVE Now(x)
    <2>1. PICK i \in 1 .. n : x \in ToSet(parts[i])
      BY <1>4, <1>7, FlattenElements
    <2>2. x = <<round, i>>
      BY <1>3, <2>1
    <2> QED BY <2>2 DEF Now
  <1>8. Owned = FlattenSeq(parts)
    BY DEF Owned, parts, n
  <1>9. ASSUME NEW x \in ToSet(Ids(reply)) PROVE x \in Id /\ Now(x)
    <2>1. PICK i \in 1 .. n : x = <<round, i>>
      BY <1>1, <1>9 DEF Ids, ToSet, n
    <2> QED BY <1>2, <2>1 DEF Now
  <1> QED BY <1>6, <1>7, <1>8, <1>9

\* The owned calls are the same as long as the reply is.
LEMMA OwnedKept ==
  ASSUME UNCHANGED <<rq, owner, round, reply>>
  PROVE  Owned' = Owned /\ Ids(reply)' = Ids(reply)
  BY DEF Owned, Owns, Ids

\* A step that works on a reply, whatever it makes of the usage.
LEMMA ReplyStep ==
  ASSUME LoopInv, pc = "reply",
         UNCHANGED <<guarding, rq, owner, res, round, reply, ran, locked, spent>>,
         acc' \in Usage, seen' \in Usage, UsagePart',
         why' \in {why, why \cup {"uncompleted"}},
         \/ /\ pc' = "exit" /\ out' \in Answers /\ out'.end = "answer"
            /\ out'.calls = ToSet(Ids(reply)) /\ UNCHANGED <<todo, fed>>
         \/ Continue
         \/ Mixed /\ ~rq.stream
  PROVE  LoopInv'
  <1>0. /\ Types /\ Places /\ TalkTypes /\ out.end = "none" /\ ~refused
        /\ "uncaught_guardrail" \notin why /\ "uncaught_guardrail" \notin why'
    BY DEF LoopInv, Types, Places, GuardPart, Over
  <1>1. /\ Owned \in Seq(Id) /\ Once(Owned) /\ \A id \in ToSet(Owned) : Now(id)
        /\ \A id \in ToSet(Ids(reply)) : Now(id)
    BY <1>0, OwnedFacts
  <1>2. Owned' = Owned /\ Ids(reply)' = Ids(reply)
    BY OwnedKept
  <1>3. Once(ran) /\ round > 0 /\ \A id \in ToSet(ran) : id[1] <= round /\ ~Now(id)
    BY DEF LoopInv, DispatchPart
  <1>4. Len(fed) = round - 1 /\ \A k \in 1 .. Len(fed) : Paired(fed[k])
    BY DEF LoopInv, TranscriptPart
  <1>5. pc' \notin {"guard", "prepare", "enter", "done"} /\ pc' \in {"exit", "run", "mixed"}
    BY DEF Continue, Mixed
  <1>6. OpenPart'
    BY <1>5 DEF LoopInv, OpenPart, LeftOpenHasCause, Before
  <1>7. CASE /\ pc' = "exit" /\ out' \in Answers /\ out'.end = "answer"
             /\ out'.calls = ToSet(Ids(reply)) /\ UNCHANGED <<todo, fed>>
    <2>1. Types'
      BY <1>0, <1>7 DEF Types, TalkTypes, Over, guarding
    <2>2. Places' /\ GuardPart'
      BY <1>0, <1>7 DEF Places, GuardPart, Before, Over, guarding
    <2>3. DispatchPart'
      <3>1. out'.calls = ToSet(Ids(reply)) \ ToSet(ran)
        BY <1>1, <1>3, <1>7
      <3> QED BY <1>2, <1>3, <1>7, <3>1 DEF LoopInv, DispatchPart
    <2>4. TranscriptPart'
      BY <1>7 DEF TranscriptPart
    <2> QED BY <1>6, <2>1, <2>2, <2>3, <2>4 DEF LoopInv
  <1>8. CASE pc' \in {"run", "mixed"} /\ todo' = Owned /\ UNCHANGED out
             /\ (fed' = fed \/ fed' = Append(fed, [calls |-> Owned, results |-> <<>>]))
             /\ (pc' = "run" => fed' = Append(fed, [calls |-> Owned, results |-> <<>>]))
             /\ (pc' = "mixed" => ~rq.stream)
    <2>1. [calls |-> Owned, results |-> <<>>] \in ToolRound
      BY <1>1 DEF ToolRound
    <2>2. fed' \in Seq(ToolRound)
      <3>1. fed \in Seq(ToolRound)
        BY <1>0 DEF TalkTypes
      <3>2. Append(fed, [calls |-> Owned, results |-> <<>>]) \in Seq(ToolRound)
        BY <2>1, <3>1, AppendProperties
      <3> QED BY <1>8, <3>1, <3>2
    <2>3. Types'
      BY <1>0, <1>1, <1>8, <2>2 DEF Types, TalkTypes, guarding
    <2>4. Places' /\ GuardPart'
      BY <1>0, <1>8 DEF Places, GuardPart, Before, Over, guarding
    <2>5. DispatchPart'
      <3>1. \A id \in ToSet(todo') : id \notin ToSet(ran') /\ Now(id)'
        BY <1>1, <1>3, <1>8 DEF Now
      <3>2. \A id : id \in ToSet(Owned') <=> id \in ToSet(todo') \/ (id \in ToSet(ran') /\ Now(id)')
        BY <1>2, <1>3, <1>8 DEF Now
      <3>3. Once(todo') /\ Once(ran') /\ \A id \in ToSet(ran') : id[1] <= round'
        BY <1>1, <1>3, <1>8
      <3> QED BY <1>0, <1>3, <1>8, <3>1, <3>2, <3>3 DEF LoopInv, DispatchPart
    <2>6. TranscriptPart'
      <3>1. CASE pc' = "run"
        <4> DEFINE new == [calls |-> Owned, results |-> <<>>]
        <4>1. fed' = Append(fed, new) /\ fed \in Seq(ToolRound) /\ new \in ToolRound
          BY <1>0, <1>8, <2>1, <3>1 DEF TalkTypes
        <4>2. /\ Len(fed') = Len(fed) + 1 /\ fed'[Len(fed) + 1] = new
              /\ \A k \in 1 .. Len(fed) : fed'[k] = fed[k]
          BY <4>1, AppendProperties
        <4>3. new.calls = Owned /\ new.results = <<>> /\ Len(new.results) = 0
          OBVIOUS
        <4> HIDE DEF new
        <4>4. Len(fed) + 1 = round /\ round \in Nat
          BY <1>0, <1>4 DEF TalkTypes
        <4>5. Len(fed') = round' /\ fed'[round'] = new
          BY <4>2, <4>4
        <4>6. Pairing(fed[round])'
          <5>1. Len(Owned) \in Nat /\ \A j \in 1 .. Len(Owned) : 0 + j = j
            BY <1>1
          <5> QED BY <1>2, <1>8, <4>3, <4>5, <5>1 DEF Pairing
        <4>7. \A k \in 1 .. round : k < round => Paired(fed[k])'
          <5>1. \A k \in 1 .. round : k < round => k \in 1 .. Len(fed)
            BY <4>4
          <5> QED BY <1>4, <4>2, <5>1 DEF Paired
        <4> QED BY <3>1, <4>5, <4>6, <4>7 DEF TranscriptPart
      <3>2. CASE pc' = "mixed"
        BY <3>2 DEF TranscriptPart
      <3> QED BY <1>8, <3>1, <3>2
    <2> QED BY <1>6, <2>3, <2>4, <2>5, <2>6 DEF LoopInv
  <1> QED BY <1>7, <1>8 DEF Continue, Mixed

LEMMA ShownIds == ASSUME Types PROVE ToSet(Ids(reply)) \in SUBSET Id
  BY OwnedFacts

\* The totals before a reply is worked on.
LEMMA TotalsAtReply ==
  ASSUME LoopInv, pc = "reply"
  PROVE  /\ acc \in Usage /\ spent \in Usage /\ seen \in Usage
         /\ out \in Answers /\ out.end = "none"
         /\ ~rq.stream => acc.in = acc.out /\ spent.in = spent.out /\ spent.out = Settled
         /\ rq.stream /\ rq.fmt # "chat" /\ "uncompleted" \notin why => spent.out = Settled
         /\ reply.usage = "apart" =>
              rq.stream /\ rq.fmt # "messages" /\ (rq.fmt = "chat" \/ reply.ends = <<>>)
  BY DEF LoopInv, Types, TalkTypes, Places, UsagePart, Over

\* The loops that do not stream add up both kinds of tokens.
LEMMA PlainStep ==
  ASSUME LoopInv, pc = "reply", ~rq.stream, acc' = Plus(acc),
         UNCHANGED <<guarding, rq, owner, res, round, reply, ran, locked, spent, why>>,
         \/ Answer(ToSet(Ids(reply)), acc') /\ UNCHANGED <<todo, fed>>
         \/ (Continue \/ Mixed) /\ UNCHANGED seen
  PROVE  LoopInv'
  <1>0. /\ acc \in Usage /\ spent \in Usage /\ seen \in Usage /\ out.end = "none"
        /\ out \in Answers /\ acc.in = acc.out /\ spent.in = spent.out /\ spent.out = Settled
        /\ reply.usage # "apart"
    BY TotalsAtReply
  <1>1. acc' \in Usage /\ acc'.in = spent.in /\ acc'.out = spent.out
    <2>1. CASE reply.usage = "absent"
      BY <1>0, <2>1 DEF Plus, Settled, Usage
    <2>2. CASE reply.usage # "absent"
      <3>1. acc' = [in |-> acc.in + 1, out |-> acc.out + 1] /\ spent.out = acc.out + 1
        BY <1>0, <2>2 DEF Plus, Settled
      <3> QED BY <1>0, <3>1 DEF Usage
    <2> QED BY <2>1, <2>2
  <1>2. Zero \in Usage
    BY DEF Zero, Usage
  <1>3. CASE Answer(ToSet(Ids(reply)), acc') /\ UNCHANGED <<todo, fed>>
    <2>1. /\ pc' = "exit" /\ seen' = IF reply.usage = "absent" THEN Zero ELSE acc'
          /\ out' = [end |-> "answer", calls |-> ToSet(Ids(reply)), terminals |-> 1]
      BY <1>3 DEF Answer
    <2>2. out' \in Answers /\ out'.end = "answer" /\ out'.calls = ToSet(Ids(reply))
      BY <2>1, ShownIds DEF LoopInv, Answers
    <2>3. seen' \in Usage
      BY <1>1, <1>2, <2>1
    <2>4. UsagePart'
      BY <1>0, <1>1, <2>1 DEF UsagePart, UsageIsWhole, Before, Over
    <2> QED BY <1>1, <1>3, <2>1, <2>2, <2>3, <2>4, ReplyStep
  <1>4. CASE (Continue \/ Mixed) /\ UNCHANGED seen
    <2>1. pc' \in {"run", "mixed"} /\ out'.end = "none"
      BY <1>0, <1>4 DEF Continue, Mixed
    <2>2. Settled' = acc'.out
      BY <1>1, <2>1 DEF Settled, Usage
    <2>3. UsagePart'
      BY <1>0, <1>1, <2>1, <2>2 DEF UsagePart, UsageIsWhole, Before, Over
    <2> QED BY <1>0, <1>1, <1>4, <2>3, ReplyStep
  <1> QED BY <1>3, <1>4

LEMMA mcp_tool_loopKeeps == ASSUME LoopInv, mcp_tool_loop PROVE LoopInv'
  BY PlainStep DEF mcp_tool_loop

LEMMA anthropic_tool_loopKeeps == ASSUME LoopInv, anthropic_tool_loop PROVE LoopInv'
  BY PlainStep DEF anthropic_tool_loop

LEMMA responses_tool_loopKeeps == ASSUME LoopInv, responses_tool_loop PROVE LoopInv'
  BY PlainStep DEF responses_tool_loop

\* The answer of a stream: what its last reply reports, on top of the totals.
LEMMA StreamEnds ==
  ASSUME LoopInv, pc = "reply", rq.stream, NEW u \in Usage, StreamAnswer(u),
         UNCHANGED <<guarding, rq, owner, res, round, reply, ran, locked, spent, why>>,
         reply.usage = "with" /\ "uncompleted" \notin why =>
            u.in = 1 /\ u.out = IF rq.fmt = "chat" THEN 1 ELSE spent.out
  PROVE  LoopInv'
  <1>0. acc \in Usage /\ seen \in Usage /\ out \in Answers
    BY TotalsAtReply
  <1>1. /\ pc' = "exit" /\ seen' = (IF reply.usage = "with" THEN u ELSE seen) /\ UNCHANGED <<todo, fed, acc>>
        /\ out' = [end |-> "answer", calls |-> ToSet(Ids(reply)),
                   terminals |-> out.terminals + IF reply.ends = <<>> THEN 0 ELSE 1]
    BY DEF StreamAnswer
  <1>2. out' \in Answers /\ out'.end = "answer" /\ out'.calls = ToSet(Ids(reply))
    <2>1. PICK n \in Nat : n = out.terminals + IF reply.ends = <<>> THEN 0 ELSE 1
      BY <1>0 DEF Answers
    <2>2. out' = [end |-> "answer", calls |-> ToSet(Ids(reply)), terminals |-> n]
      BY <1>1, <2>1
    <2> QED BY <2>2, ShownIds DEF LoopInv, Answers
  <1>3. UsagePart'
    BY <1>1, <1>2 DEF UsagePart, UsageIsWhole, Before, Over
  <1> QED BY <1>0, <1>1, <1>2, <1>3, ReplyStep

\* A round of a stream that goes on with the totals its last events add to.
LEMMA StreamContinues ==
  ASSUME LoopInv, pc = "reply", rq.stream, Continue, UNCHANGED seen, acc' \in Usage,
         why' \in {why, why \cup {"uncompleted"}},
         UNCHANGED <<guarding, rq, owner, res, round, reply, ran, locked, spent>>,
         rq.fmt # "chat" /\ "uncompleted" \notin why' => spent.out = acc'.out
  PROVE  LoopInv'
  <1>0. seen \in Usage /\ out.end = "none"
    BY TotalsAtReply
  <1>1. pc' = "run" /\ out'.end = "none"
    BY <1>0 DEF Continue
  <1>2. Settled' = acc'.out
    BY <1>1 DEF Settled, Usage
  <1>3. UsagePart'
    BY <1>1, <1>2 DEF UsagePart, UsageIsWhole, Before, Over
  <1> QED BY <1>0, <1>3, ReplyStep

LEMMA mcp_tool_loop_streamKeeps == ASSUME LoopInv, mcp_tool_loop_stream PROVE LoopInv'
  <1> DEFINE one == [in |-> 1, out |-> 1]
  <1>1. one \in Usage /\ one.in = 1 /\ one.out = 1
    BY DEF Usage
  <1>2. acc \in Usage
    BY TotalsAtReply DEF mcp_tool_loop_stream
  <1>3. CASE StreamAnswer(one)
    BY <1>1, <1>3, StreamEnds DEF mcp_tool_loop_stream
  <1>4. CASE Continue /\ UNCHANGED <<seen, acc>>
    BY <1>2, <1>4, StreamContinues DEF mcp_tool_loop_stream
  <1> QED BY <1>3, <1>4 DEF mcp_tool_loop_stream

LEMMA FoldedIs ==
  ASSUME LoopInv, pc = "reply", rq.stream, rq.fmt # "chat"
  PROVE  /\ Folded \in Usage /\ Folded.in = 1
         /\ reply.usage = "with" /\ "uncompleted" \notin why => Folded.out = spent.out
         /\ PlusDropped \in Usage
         /\ /\ "uncompleted" \notin why
            /\ reply.usage # "apart"
            => PlusDropped.out = spent.out
  <1>1. /\ acc \in Usage /\ ("uncompleted" \notin why => spent.out = Settled)
        /\ Settled = acc.out + (IF reply.usage # "absent" THEN 1 ELSE 0)
    BY TotalsAtReply DEF Settled
  <1>2. PICK n \in Nat : n = acc.out + IF reply.usage = "with" THEN 1 ELSE 0
    BY <1>1 DEF Usage
  <1>3. PlusDropped = [acc EXCEPT !.out = n]
    BY <1>2 DEF PlusDropped
  <1>4. PlusDropped \in Usage /\ PlusDropped.out = n
    BY <1>1, <1>3 DEF Usage
  <1>5. PICK m \in Nat : m = 1 + acc.out
    BY <1>1 DEF Usage
  <1>6. Folded = [in |-> 1, out |-> m]
    BY <1>5 DEF Folded
  <1>7. Folded \in Usage /\ Folded.in = 1 /\ Folded.out = m
    BY <1>6 DEF Usage
  <1>8. reply.usage \in {"with", "apart", "absent"}
    BY DEF LoopInv, UsagePart
  <1>9. acc.out \in Nat
    BY <1>1 DEF Usage
  <1>10. "uncompleted" \notin why /\ reply.usage # "apart" => n = spent.out
    BY <1>1, <1>2, <1>8, <1>9
  <1>11. reply.usage = "with" /\ "uncompleted" \notin why => m = spent.out
    BY <1>1, <1>5, <1>9
  <1> QED BY <1>4, <1>7, <1>10, <1>11

LEMMA anthropic_tool_loop_streamKeeps == ASSUME LoopInv, anthropic_tool_loop_stream PROVE LoopInv'
  <1>1. pc = "reply" /\ rq.stream /\ rq.fmt = "messages"
        /\ UNCHANGED <<guarding, rq, owner, res, round, reply, ran, locked, spent, why>>
    BY DEF anthropic_tool_loop_stream
  <1>2. /\ Folded \in Usage /\ Folded.in = 1
        /\ reply.usage = "with" /\ "uncompleted" \notin why => Folded.out = spent.out
        /\ PlusDropped \in Usage
        /\ "uncompleted" \notin why => PlusDropped.out = spent.out
    BY <1>1, FoldedIs, TotalsAtReply
  <1>3. CASE StreamAnswer(Folded)
    BY <1>1, <1>2, <1>3, StreamEnds
  <1>4. CASE Continue /\ acc' = PlusDropped /\ UNCHANGED seen
    BY <1>1, <1>2, <1>4, StreamContinues
  <1> QED BY <1>3, <1>4 DEF anthropic_tool_loop_stream

LEMMA responses_tool_loop_streamKeeps == ASSUME LoopInv, responses_tool_loop_stream PROVE LoopInv'
  <1>1. pc = "reply" /\ rq.stream /\ rq.fmt = "responses"
        /\ UNCHANGED <<guarding, rq, owner, res, round, reply, ran, locked, spent>>
    BY DEF responses_tool_loop_stream
  <1>2. /\ Folded \in Usage /\ Folded.in = 1
        /\ reply.usage = "with" /\ "uncompleted" \notin why => Folded.out = spent.out
        /\ PlusDropped \in Usage
        /\ "uncompleted" \notin why /\ reply.ends # <<>> => PlusDropped.out = spent.out
    BY <1>1, FoldedIs, TotalsAtReply
  <1>3. CASE StreamAnswer(Folded) /\ UNCHANGED why
    BY <1>1, <1>2, <1>3, StreamEnds
  <1>4. CASE /\ Continue /\ acc' = PlusDropped /\ UNCHANGED seen
             /\ why' = IF reply.ends = <<>> THEN why \cup {"uncompleted"} ELSE why
    <2>1. "uncompleted" \notin why' => "uncompleted" \notin why /\ reply.ends # <<>>
      BY <1>4
    <2> QED BY <1>1, <1>2, <1>4, <2>1, StreamContinues
  <1> QED BY <1>3, <1>4 DEF responses_tool_loop_stream

-----------------------------------------------------------------------------
(***************************************************************************)
(* Running the calls.                                                      *)
(***************************************************************************)
LEMMA TextsAre == Texts \subseteq {"text", "tool_error"}
  BY DEF Texts, McpText, SandboxText, SearchText

\* One call of the batch: it moves from the calls to do to the calls run, and
\* in a tool round its result takes its place.
LEMMA RunKeeps == ASSUME LoopInv, NEW kind \in Kinds, Run(kind) PROVE LoopInv'
  <1> DEFINE id == Head(todo)
             f == fed[round]
             g(text) == [kind |-> kind, id |-> id, text |-> text]
  <1>0. /\ Types /\ Places /\ TalkTypes /\ out.end = "none" /\ ~refused
        /\ "uncaught_guardrail" \notin why /\ pc \in {"run", "mixed"} /\ pc' = pc /\ todo # <<>>
        /\ todo' = Tail(todo) /\ ran' = Append(ran, id)
        /\ UNCHANGED <<guarding, rq, owner, res, round, reply, locked, acc, spent, seen, out, why>>
    BY DEF LoopInv, Types, Places, GuardPart, Run, Over
  <1>1. PICK text \in {"text", "tool_error"} :
          fed' = IF pc = "mixed" THEN fed
                 ELSE [fed EXCEPT ![Len(fed)].results = Append(@, g(text))]
    BY TextsAre DEF Run
  <1>2. todo \in Seq(Id) /\ ran \in Seq(Id) /\ fed \in Seq(ToolRound) /\ round \in Nat
    BY <1>0 DEF TalkTypes
  <1>3. /\ id \in Id /\ Tail(todo) \in Seq(Id) /\ Len(Tail(todo)) = Len(todo) - 1
        /\ todo[1] = id /\ \A j \in 1 .. Len(Tail(todo)) : Tail(todo)[j] = todo[j + 1]
        /\ \A x : x \in ToSet(todo) <=> x = id \/ x \in ToSet(Tail(todo))
        /\ Once(todo) => Once(Tail(todo)) /\ id \notin ToSet(Tail(todo))
    BY <1>0, <1>2, TailOnce
  <1>3a. /\ Len(todo') = Len(todo) - 1
         /\ \A j \in 1 .. Len(todo') : todo'[j] = todo[j + 1]
    BY <1>0, <1>3
  <1>4. /\ ran' \in Seq(Id)
        /\ \A x : x \in ToSet(ran') <=> x \in ToSet(ran) \/ x = id
        /\ Once(ran) /\ id \notin ToSet(ran) => Once(ran')
    BY <1>0, <1>2, <1>3, AppendOnce
  <1>5. Owned' = Owned /\ Owned \in Seq(Id)
    BY <1>0, OwnedKept, OwnedFacts
  <1>6. DispatchPart'
    <2>1. /\ Once(ran) /\ \A x \in ToSet(ran) : x[1] <= round
          /\ round > 0 /\ Once(todo)
          /\ \A x \in ToSet(todo) : x \notin ToSet(ran) /\ Now(x)
          /\ \A x : x \in ToSet(Owned) <=> x \in ToSet(todo) \/ (x \in ToSet(ran) /\ Now(x))
          /\ ~rq.stream => locked = 1
      BY <1>0 DEF LoopInv, DispatchPart
    <2>2. id \in ToSet(todo) /\ Now(id) /\ id \notin ToSet(ran)
      BY <1>3, <2>1
    <2>3. id[1] = round /\ id[1] <= round
      BY <1>2, <2>2 DEF Now
    <2>4. Once(ran') /\ \A x \in ToSet(ran') : x[1] <= round
      BY <1>4, <2>1, <2>2, <2>3
    <2>5. Once(todo') /\ \A x \in ToSet(todo') : x \notin ToSet(ran') /\ Now(x)
      BY <1>0, <1>3, <1>4, <2>1
    <2>6. \A x : x \in ToSet(Owned) <=> x \in ToSet(todo') \/ (x \in ToSet(ran') /\ Now(x))
      BY <1>0, <1>3, <1>4, <2>1, <2>2
    <2>7. \A x : Now(x)' <=> Now(x)
      BY <1>0 DEF Now
    <2> QED BY <1>0, <1>5, <2>1, <2>4, <2>5, <2>6, <2>7 DEF DispatchPart
  <1>7. fed' \in Seq(ToolRound) /\ TranscriptPart'
    <2>1. CASE pc = "mixed"
      BY <1>0, <1>1, <1>2, <2>1 DEF TranscriptPart
    <2>2. CASE pc = "run"
      <3>1. /\ Len(fed) = round /\ Pairing(f) /\ round \in 1 .. Len(fed)
            /\ \A k \in 1 .. round : k < round => Paired(fed[k])
        BY <1>2, <2>2 DEF LoopInv, TranscriptPart, DispatchPart
      <3>2. f \in ToolRound /\ f.results \in Seq(Result) /\ f.calls \in Seq(Id)
        <4>1. f \in ToolRound
          BY <1>2, <3>1
        <4> QED BY <4>1 DEF ToolRound
      <3> HIDE DEF f
      <3>3. g(text) \in Result /\ g(text).id = id
        BY <1>1, <1>3 DEF Result
      <3> DEFINE r == Append(f.results, g(text))
                 h == [f EXCEPT !.results = r]
      <3>4. /\ r \in Seq(Result) /\ Len(r) = Len(f.results) + 1
            /\ r[Len(f.results) + 1] = g(text)
            /\ \A i \in 1 .. Len(f.results) : r[i] = f.results[i]
        BY <3>2, <3>3, AppendProperties
      <3>5. h \in ToolRound /\ h.calls = f.calls /\ h.results = r
        BY <3>2, <3>4 DEF ToolRound
      <3>6. fed' = [fed EXCEPT ![round] = h]
        BY <1>1, <2>2, <3>1 DEF f
      <3> HIDE DEF r, h
      <3>7. /\ fed' \in Seq(ToolRound) /\ Len(fed') = Len(fed) /\ fed'[round] = h
            /\ \A k \in 1 .. Len(fed) : k # round => fed'[k] = fed[k]
        BY <1>2, <3>1, <3>5, <3>6
      <3>8. Pairing(fed[round])'
        <4>1. /\ f.calls = Owned /\ Len(Owned) = Len(f.results) + Len(todo)
              /\ \A i \in 1 .. Len(f.results) : f.results[i].id = Owned[i]
              /\ \A j \in 1 .. Len(todo) : todo[j] = Owned[Len(f.results) + j]
          BY <3>1 DEF Pairing
        <4>2. Len(todo) \in Nat \ {0} /\ Len(f.results) \in Nat /\ Len(todo') = Len(todo) - 1
          BY <1>0, <1>2, <1>3, <3>2, <1>3a
        <4>2a. Len(h.results) = Len(f.results) + 1
          BY <3>4, <3>5
        <4>2b. h.calls = Owned /\ Len(Owned) = Len(f.results) + Len(todo)
          BY <3>5, <4>1
        <4>3. h.calls = Owned /\ Len(Owned) = Len(h.results) + Len(todo')
          BY <4>2, <4>2a, <4>2b
        <4>4. ASSUME NEW i \in 1 .. Len(h.results) PROVE h.results[i].id = Owned[i]
          <5>1. CASE i = Len(f.results) + 1
            <6>1. h.results[i].id = todo[1]
              BY <1>3, <3>3, <3>4, <3>5, <5>1
            <6>2. 1 \in 1 .. Len(todo)
              BY <4>2
            <6> QED BY <4>1, <5>1, <6>1, <6>2
          <5>2. CASE i # Len(f.results) + 1
            <6>1. i \in 1 .. Len(f.results)
              BY <3>4, <3>5, <4>2, <5>2
            <6> QED BY <3>4, <3>5, <4>1, <6>1
          <5> QED BY <5>1, <5>2
        <4>5. ASSUME NEW j \in 1 .. Len(todo') PROVE todo'[j] = Owned[Len(h.results) + j]
          <5>1. j + 1 \in 1 .. Len(todo) /\ Len(f.results) + (j + 1) = Len(h.results) + j
            <6>1. j \in Nat /\ 1 <= j /\ j <= Len(todo) - 1
              BY <4>2
            <6>2. j + 1 \in 1 .. Len(todo)
              BY <4>2, <6>1
            <6>3. \A n, m \in Nat : n + (m + 1) = (n + 1) + m
              OBVIOUS
            <6>4. Len(f.results) + (j + 1) = (Len(f.results) + 1) + j
              BY <4>2, <6>1, <6>3
            <6> QED BY <4>2a, <6>2, <6>4
          <5>2. todo'[j] = todo[j + 1]
            BY <1>3a
          <5>3. todo[j + 1] = Owned[Len(f.results) + (j + 1)]
            BY <4>1, <5>1
          <5> QED BY <5>1, <5>2, <5>3
        <4>6. fed'[round'] = h /\ Owned' = Owned
          BY <1>0, <1>5, <3>7
        <4> QED BY <4>3, <4>4, <4>5, <4>6 DEF Pairing
      <3>9. \A k \in 1 .. round : k < round => Paired(fed[k])'
        BY <1>2, <3>1, <3>7 DEF Paired
      <3> QED BY <1>0, <2>2, <3>1, <3>7, <3>8, <3>9 DEF TranscriptPart
    <2> QED BY <1>0, <2>1, <2>2
  <1>8. Types'
    <2>1. TalkTypes'
      BY <1>0, <1>3, <1>4, <1>7 DEF TalkTypes
    <2> QED BY <1>0, <2>1 DEF Types, guarding
  <1>9. Places' /\ GuardPart'
    BY <1>0 DEF Places, GuardPart, Before, guarding
  <1>10. OpenPart'
    BY <1>0 DEF LoopInv, OpenPart, LeftOpenHasCause, Before
  <1>11. UsagePart'
    BY <1>0 DEF LoopInv, UsagePart, UsageIsWhole, Settled, Before, Over
  <1> QED BY <1>6, <1>7, <1>8, <1>9, <1>10, <1>11 DEF LoopInv

LEMMA ExecuteKeeps ==
  ASSUME LoopInv, execute_mcp_calls \/ execute_tool_uses \/ execute_function_calls
  PROVE  LoopInv'
  <1>1. "tool" \in Kinds /\ "tool_result" \in Kinds /\ "function_call_output" \in Kinds
    BY DEF Kinds
  <1> QED BY <1>1, RunKeeps DEF execute_mcp_calls, execute_tool_uses, execute_function_calls

LEMMA BatchRunKeeps == ASSUME LoopInv, BatchRun PROVE LoopInv'
  <1>0. /\ Types /\ Places /\ TalkTypes /\ out.end = "none" /\ ~refused
        /\ "uncaught_guardrail" \notin why /\ pc \in {"run", "mixed"} /\ todo = <<>>
        /\ UNCHANGED <<guarding, rq, owner, res, round, reply, todo, fed, ran, locked, acc, spent, why>>
    BY DEF LoopInv, Types, Places, GuardPart, BatchRun, Over
  <1>1. /\ Once(ran) /\ round > 0 /\ \A x \in ToSet(ran) : x[1] <= round
        /\ ~rq.stream => locked = 1
        /\ \A x : x \in ToSet(Owned) <=> x \in ToSet(ran) /\ Now(x)
    <2>1. ToSet(todo) = {}
      BY <1>0, EmptyOnce
    <2> QED BY <1>0, <2>1 DEF LoopInv, DispatchPart
  <1>2. OpenPart'
    BY <1>0 DEF LoopInv, OpenPart, LeftOpenHasCause, BatchRun, Answer, Before
  <1>3. CASE pc = "run"
    <2>0. pc' = "ask" /\ UNCHANGED <<seen, out>>
      BY <1>3 DEF BatchRun
    <2>1. Types'
      BY <1>0, <2>0 DEF Types, TalkTypes, guarding
    <2>2. Places' /\ GuardPart'
      BY <1>0, <2>0 DEF Places, GuardPart, Before, guarding
    <2>3. UsagePart'
      BY <1>0, <1>3, <2>0 DEF LoopInv, UsagePart, UsageIsWhole, Settled, Before, Over
    <2>4. DispatchPart'
      BY <1>0, <1>1, <2>0 DEF DispatchPart
    <2>5. TranscriptPart'
      <3>1. /\ Len(fed) = round /\ Pairing(fed[round]) /\ round \in Nat
            /\ \A k \in 1 .. round : k < round => Paired(fed[k])
        BY <1>0, <1>3 DEF LoopInv, TranscriptPart, TalkTypes
      <3>2. Paired(fed[round])
        <4> DEFINE f == fed[round]
        <4>1. f \in ToolRound
          BY <1>0, <1>1, <3>1 DEF TalkTypes
        <4>2. f.results \in Seq(Result) /\ Owned \in Seq(Id)
          BY <1>0, <4>1, OwnedFacts DEF ToolRound
        <4>3. /\ f.calls = Owned /\ Len(Owned) = Len(f.results)
              /\ \A i \in 1 .. Len(f.results) : f.results[i].id = Owned[i]
          BY <1>0, <3>1, <4>2 DEF Pairing
        <4> HIDE DEF f
        <4>4. DOMAIN f.results = 1 .. Len(Owned) /\ DOMAIN Owned = 1 .. Len(Owned)
          BY <4>2, <4>3
        <4>5. [i \in DOMAIN f.results |-> f.results[i].id] = Owned
          BY <4>2, <4>3, <4>4
        <4> QED BY <4>3, <4>5 DEF Paired, f
      <3>3. \A k \in 1 .. Len(fed) : Paired(fed[k])
        BY <3>1, <3>2
      <3> QED BY <1>0, <2>0, <3>1, <3>3 DEF TranscriptPart, Paired
    <2> QED BY <1>2, <2>1, <2>2, <2>3, <2>4, <2>5 DEF LoopInv
  <1>4. CASE pc = "mixed"
    <2>0. /\ pc' = "exit" /\ seen' = (IF reply.usage = "absent" THEN Zero ELSE acc)
          /\ out' = [end |-> "answer", calls |-> ToSet(Ids(reply)) \ ToSet(Owned), terminals |-> 1]
      BY <1>4 DEF BatchRun, Answer
    <2>1. ToSet(Ids(reply)) \subseteq Id /\ \A x \in ToSet(Ids(reply)) : Now(x)
      BY <1>0, OwnedFacts
    <2>2. Types'
      <3>1. out' \in Answers
        BY <2>0, <2>1 DEF Answers
      <3>2. seen' \in Usage
        BY <1>0, <2>0 DEF TalkTypes, Zero, Usage
      <3> QED BY <1>0, <2>0, <3>1, <3>2 DEF Types, TalkTypes, Over, guarding
    <2>3. Places' /\ GuardPart'
      BY <1>0, <2>0 DEF Places, GuardPart, Before, Over, guarding
    <2>4. UsagePart'
      <3>1. ~rq.stream /\ acc \in Usage
        BY <1>0, <1>4 DEF Places, TalkTypes
      <3>2. acc.in = acc.out /\ spent.in = spent.out /\ spent.out = acc.out
        BY <1>4, <3>1 DEF LoopInv, UsagePart, Settled, Over, Usage
      <3> QED BY <1>0, <2>0, <3>1, <3>2 DEF UsagePart, UsageIsWhole, Before, Over
    <2>5. DispatchPart'
      <3>1. out'.calls = ToSet(Ids(reply)) \ ToSet(ran)
        BY <1>1, <2>0, <2>1
      <3>2. Ids(reply)' = Ids(reply)
        BY <1>0 DEF Ids
      <3> QED BY <1>0, <1>1, <2>0, <3>1, <3>2 DEF DispatchPart
    <2>6. TranscriptPart'
      BY <2>0 DEF TranscriptPart
    <2> QED BY <1>2, <2>2, <2>3, <2>4, <2>5, <2>6 DEF LoopInv
  <1> QED BY <1>0, <1>3, <1>4

-----------------------------------------------------------------------------
(***************************************************************************)
(* The theorems.                                                           *)
(***************************************************************************)
LEMMA LoopStarts == Init => LoopInv
  <1> SUFFICES ASSUME Init PROVE LoopInv
    OBVIOUS
  <1>1. Zero \in Usage /\ <<>> \in Seq(Tools) /\ <<>> \in Seq(Id) /\ <<>> \in Seq(ToolRound)
    BY DEF Zero, Usage
  <1>2. Types
    BY <1>1 DEF Init, Types, TalkTypes, NoRequest, NoReply, Requests, Clients, Answers, Before
  <1>3. Places /\ GuardPart /\ OpenPart /\ TranscriptPart
    BY DEF Init, Places, GuardPart, OpenPart, LeftOpenHasCause, TranscriptPart, Before, Over, NoRequest
  <1>5. UsagePart
    BY DEF Init, UsagePart, UsageIsWhole, Settled, Zero, Before, Over, NoRequest
  <1>4. DispatchPart
    BY EmptyOnce DEF Init, DispatchPart
  <1> QED BY <1>2, <1>3, <1>4, <1>5 DEF LoopInv

LEMMA LoopStutters == ASSUME LoopInv, UNCHANGED vars PROVE LoopInv'
  <1>1. Owned' = Owned /\ Ids(reply)' = Ids(reply)
    BY OwnedKept DEF vars
  <1>2. \A x : Now(x)' <=> Now(x)
    BY DEF Now, vars
  <1>3. DispatchPart'
    BY <1>1, <1>2 DEF LoopInv, DispatchPart, vars
  <1>4. TranscriptPart'
    BY <1>1 DEF LoopInv, TranscriptPart, Pairing, Paired, vars
  <1>5. UsagePart' /\ OpenPart' /\ GuardPart' /\ Places' /\ Types'
    BY DEF LoopInv, UsagePart, UsageIsWhole, Settled, OpenPart, LeftOpenHasCause, GuardPart,
           Places, Types, TalkTypes, Before, Over, vars
  <1> QED BY <1>3, <1>4, <1>5 DEF LoopInv

\* LoopInv is inductive: it holds when the request comes in, and every step of
\* the guardrails, the backends, the loops and the tools keeps it.
THEOREM LoopKeepsInv == Spec => []LoopInv
  <1>1. LoopInv /\ [Next]_vars => LoopInv'
    <2> SUFFICES ASSUME LoopInv, [Next]_vars PROVE LoopInv'
      OBVIOUS
    <2>1. CASE RunGuardrail \/ ApplyGuardrails \/ PrepareTools
      BY <2>1, RunGuardrailKeeps, ApplyGuardrailsKeeps, PrepareToolsKeeps
    <2>2. CASE Connect \/ ConnectFails \/ Connected \/ EnterSandbox \/ EnterWebSearch \/ NeverPulled
      BY <2>2, ConnectKeeps, ConnectFailsKeeps, ConnectedKeeps, EnterSandboxKeeps,
         EnterWebSearchKeeps, NeverPulledKeeps
    <2>3. CASE Ask \/ AskFails \/ IterationsExceeded
      BY <2>3, AskKeeps, AskFailsKeeps, IterationsExceededKeeps
    <2>4. CASE mcp_tool_loop \/ anthropic_tool_loop \/ responses_tool_loop
      BY <2>4, mcp_tool_loopKeeps, anthropic_tool_loopKeeps, responses_tool_loopKeeps
    <2>5. CASE mcp_tool_loop_stream \/ anthropic_tool_loop_stream \/ responses_tool_loop_stream
      BY <2>5, mcp_tool_loop_streamKeeps, anthropic_tool_loop_streamKeeps,
         responses_tool_loop_streamKeeps
    <2>6. CASE execute_mcp_calls \/ execute_tool_uses \/ execute_function_calls \/ BatchRun
      BY <2>6, ExecuteKeeps, BatchRunKeeps
    <2>7. CASE Cancel \/ ExitClient \/ ExitSandbox
      BY <2>7, CancelKeeps, ExitClientKeeps, ExitSandboxKeeps
    <2>8. CASE UNCHANGED vars
      BY <2>8, LoopStutters
    <2> QED BY <2>1, <2>2, <2>3, <2>4, <2>5, <2>6, <2>7, <2>8 DEF Next
  <1> QED BY <1>1, LoopStarts, PTL DEF Spec

\* No provider is asked for an input a block-mode guardrail could not vouch
\* for, and no request ends at the guardrails otherwise, but for an answer that
\* raises what nobody catches: that fails the request before any provider is asked.
THEOREM RailsDecide == Spec => []GuardrailsDecide
  <1>1. LoopInv => GuardrailsDecide
    BY DEF LoopInv, Types, TalkTypes, GuardPart, GuardrailsDecide
  <1> QED BY <1>1, LoopKeepsInv, PTL

\* Every call of a reply is dispatched by one side, once, and answered in its
\* place before the provider is asked again.
THEOREM CallsDoGetAnswers == Spec => []CallsAreAnswered
  <1>1. LoopInv => TranscriptPaired
    BY DEF LoopInv, TranscriptPart, TranscriptPaired, Paired
  <1>2. LoopInv => DispatchedOnce
    <2> SUFFICES ASSUME LoopInv PROVE DispatchedOnce
      OBVIOUS
    <2>1. ran # <<>> /\ ~rq.stream => locked = 1
      BY DEF LoopInv, DispatchPart
    <2>2. Cardinality(ToSet(ran)) = Len(ran)
      BY OnceCardinality DEF LoopInv, DispatchPart, Types, TalkTypes
    <2>3. out.end = "answer" => out.calls = ToSet(Ids(reply)) \ ToSet(ran)
      BY DEF LoopInv, DispatchPart
    <2> QED BY <2>1, <2>2, <2>3 DEF DispatchedOnce
  <1>3. LoopInv => CallsAreAnswered
    BY <1>1, <1>2 DEF CallsAreAnswered
  <1> QED BY <1>3, LoopKeepsInv, PTL

\* The totals the loops fold into the last reply are the sum over all rounds,
\* but for the fields a stream of that format does not carry.
THEOREM UsageDoesAddUp == Spec => []UsageIsWhole
  <1>1. LoopInv => UsageIsWhole
    BY DEF LoopInv, UsagePart
  <1> QED BY <1>1, LoopKeepsInv, PTL

\* A client or a sandbox session outlives its request only by one of the
\* faults the code leaves uncovered.
THEOREM OpenHasCause == Spec => []LeftOpenHasCause
  <1>1. LoopInv => LeftOpenHasCause
    BY DEF LoopInv, OpenPart
  <1> QED BY <1>1, LoopKeepsInv, PTL
=============================================================================
