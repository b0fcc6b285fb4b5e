----------------------------- MODULE FleetProofs -----------------------------
(***************************************************************************)
(* For any number of clients, terminals, releases and flag combinations:   *)
(* what commands run one after the other, each ending anywhere, keep true. *)
(***************************************************************************)
EXTENDS Fleet, TLAPS

\* A terminal with nothing running is a legal terminal.
LEMMA IdleType == Idle \in Commands
  <1>1. NoArgs \in Args
    BY DEF NoArgs, Args
  <1>2. NoPlan \in [live : Versions \cup {"nothing"}, left : SUBSET Managed]
    BY DEF NoPlan
  <1>3. 0 \in 0 .. MaxWrites
    BY BoundsAssumption
  <1>4. Latest \in Versions
    BY DEF Versions
  <1>5. QED
    BY <1>1, <1>2, <1>3, <1>4 DEF Idle, Commands

\* Of a terminal with nothing running, only this matters.
LEMMA IdleFields ==
  /\ Idle.pc = "idle" /\ Idle.cmd = "none"
  /\ Idle.client = NoClient /\ Idle.todo = {} /\ Idle.done = {}
  BY DEF Idle

\* Init establishes the invariant.
LEMMA InitIInv == Init => IInv
  <1> SUFFICES ASSUME Init PROVE IInv
    OBVIOUS
  <1>1. \A p \in Terminals : term[p] = Idle
    BY DEF Init
  <1>2. TypeOK
    <2>1. term \in [Terminals -> Commands]
      BY IdleType DEF Init
    <2>2. manifest \in Manifests
      BY DEF Init, Manifests, Versions
    <2>3. tfvars \in Tfvars
      BY TfvarsAssumption DEF Init, Tfvars, Versions
    <2>4. cloud \in [Clients -> [live : Versions \cup {"nothing"}, ready : BOOLEAN,
                                left : SUBSET Kinds]]
      BY DEF Init, Versions
    <2>5. data \in [Clients -> 1 .. MaxWrites] /\ archive \in [Clients -> 0 .. MaxWrites]
      BY BoundsAssumption DEF Init
    <2>6. served \in [Clients -> SUBSET Versions]
      BY DEF Init, Versions
    <2>7. QED
      BY <2>1, <2>2, <2>3, <2>4, <2>5, <2>6, BoundsAssumption DEF Init, TypeOK
  <1>3. TermInv
    BY <1>1, IdleFields, RegistryAssumption DEF TermInv, TermOk, WalkSteps, OffboardSteps
  <1>4. OneAtATime /\ WalkInv /\ OffboardInv /\ WalkLeavesGoodBehind
    BY <1>1, IdleFields DEF OneAtATime, WalkInv, OffboardInv, WalkLeavesGoodBehind
  <1>5. PinIsVerified /\ MarkIsBacked
    BY DEF Init, PinIsVerified, MarkIsBacked
  <1>6. QED
    BY <1>2, <1>3, <1>4, <1>5 DEF IInv

\* The command of a terminal, but for the step it is at, stays as it is.
SameJob(p) ==
    /\ term'[p].cmd = term[p].cmd /\ term'[p].version = term[p].version
    /\ term'[p].args = term[p].args /\ term'[p].client = term[p].client
    /\ term'[p].todo = term[p].todo /\ term'[p].done = term[p].done
    /\ term'[p].held = term[p].held /\ term'[p].text = term[p].text
    /\ term'[p].dump = term[p].dump /\ term'[p].base = term[p].base

\* Step moves one terminal on and changes nothing else of it.
LEMMA StepFacts ==
  ASSUME TypeOK, NEW p \in Terminals, NEW from,
         NEW to \in {"idle"} \cup WalkSteps \cup OffboardSteps,
         Step(p, from, to)
  PROVE  /\ term' \in [Terminals -> Commands]
         /\ \A q \in Terminals \ {p} : term'[q] = term[q]
         /\ term[p].pc = from
         /\ to = "idle" => term'[p] = Idle
         /\ to # "idle" => term'[p].pc = to /\ SameJob(p)
  <1>1. term[p] \in Commands
    BY DEF TypeOK
  <1>2. /\ [term[p] EXCEPT !.pc = to] \in Commands
        /\ LET t == [term[p] EXCEPT !.pc = to] IN
           /\ t.pc = to /\ t.cmd = term[p].cmd /\ t.version = term[p].version
           /\ t.args = term[p].args /\ t.client = term[p].client
           /\ t.todo = term[p].todo /\ t.done = term[p].done
           /\ t.held = term[p].held /\ t.text = term[p].text
           /\ t.dump = term[p].dump /\ t.base = term[p].base
    BY <1>1 DEF Commands
  <1>3. term' = [term EXCEPT ![p] = IF to = "idle" THEN Idle ELSE [term[p] EXCEPT !.pc = to]]
    BY DEF Step
  <1>4. QED
    BY <1>1, <1>2, <1>3, IdleType DEF Step, TypeOK, SameJob

\* In an orderly regime the other terminals are idle, so only the terminal that
\* moves has anything to prove.
LEMMA Others ==
  ASSUME IInv, NEW p \in Terminals,
         orderly => \A q \in Terminals \ {p} : term[q].pc = "idle",
         orderly' = orderly,
         \A q \in Terminals \ {p} : term'[q] = term[q],
         TermOk(p)',
         orderly /\ term'[p].cmd = "upgrade" => WalkOk(p)' /\ GoodBehind(p)',
         orderly /\ term'[p].cmd = "offboard" => OffboardOk(p)'
  PROVE  (TermInv /\ OneAtATime /\ WalkInv /\ OffboardInv /\ WalkLeavesGoodBehind)'
  <1>1. TermInv'
    <2> SUFFICES ASSUME NEW q \in Terminals PROVE TermOk(q)'
      BY DEF TermInv
    <2>1. CASE q = p
      BY <2>1
    <2>2. CASE q # p
      BY <2>2 DEF IInv, TermInv, TermOk
    <2>3. QED
      BY <2>1, <2>2
  <1>2. orderly => \A q \in Terminals \ {p} : term'[q].pc = "idle" /\ term'[q].cmd = "none"
    BY DEF IInv, TermInv, TermOk
  <1>3. OneAtATime'
    BY <1>2 DEF OneAtATime
  <1>4. (WalkInv /\ WalkLeavesGoodBehind)'
    BY <1>2 DEF WalkInv, WalkLeavesGoodBehind
  <1>5. OffboardInv'
    BY <1>2 DEF OffboardInv
  <1>6. QED
    BY <1>1, <1>3, <1>4, <1>5

\* The same, put together: what an action of terminal p has to show.
LEMMA Preserved ==
  ASSUME IInv, NEW p \in Terminals,
         orderly => \A q \in Terminals \ {p} : term[q].pc = "idle",
         orderly' = orderly,
         \A q \in Terminals \ {p} : term'[q] = term[q],
         TypeOK',
         TermOk(p)',
         orderly /\ term'[p].cmd = "upgrade" => WalkOk(p)' /\ GoodBehind(p)',
         orderly /\ term'[p].cmd = "offboard" => OffboardOk(p)',
         PinIsVerified', MarkIsBacked'
  PROVE  IInv'
  BY Others DEF IInv

\* A running terminal is the only one of an orderly regime.
LEMMA Alone ==
  ASSUME IInv, NEW p \in Terminals, term[p].pc # "idle"
  PROVE  /\ orderly => \A q \in Terminals \ {p} : term[q].pc = "idle"
         /\ term[p] \in Commands
         /\ term[p].client \in Clients
         /\ TermOk(p)
         /\ orderly /\ term[p].cmd = "upgrade" => WalkOk(p) /\ GoodBehind(p)
         /\ orderly /\ term[p].cmd = "offboard" => OffboardOk(p)
  BY DEF IInv, OneAtATime, TypeOK, TermInv, TermOk, WalkInv, OffboardInv, WalkLeavesGoodBehind

\* A terminal that has gone back to idle.
LEMMA IdleOk ==
  ASSUME NEW p \in Terminals, term'[p] = Idle
  PROVE  /\ TermOk(p)'
         /\ term'[p].cmd = "none"
  BY IdleFields, RegistryAssumption DEF TermOk, WalkSteps, OffboardSteps

\* A command that ends anywhere leaves what it did in order.
LEMMA StopsIInv ==
  ASSUME IInv, NEW p \in Terminals, Stops(p)
  PROVE  IInv'
  <1>1. /\ term' \in [Terminals -> Commands]
        /\ term'[p] = Idle
        /\ \A q \in Terminals \ {p} : term'[q] = term[q]
    BY IdleType DEF Stops, IInv, TypeOK
  <1>2. TypeOK'
    BY <1>1 DEF Stops, IInv, TypeOK
  <1>3. PinIsVerified' /\ MarkIsBacked'
    BY DEF Stops, IInv, PinIsVerified, MarkIsBacked
  <1>4. orderly' = orderly /\ term[p].pc # "idle"
    BY DEF Stops
  <1>5. QED
    BY <1>1, <1>2, <1>3, <1>4, Alone, IdleOk, Preserved

\* tf_init points terraform at the client the walk is at.
LEMMA TfInitIInv ==
  ASSUME IInv, NEW p \in Terminals, tf_init(p)
  PROVE  IInv'
  <1>0. Step(p, "init", "plan") /\ backend' = term[p].client
    BY DEF tf_init
  <1>1. /\ term' \in [Terminals -> Commands]
        /\ \A q \in Terminals \ {p} : term'[q] = term[q]
        /\ term[p].pc = "init"
        /\ term'[p].pc = "plan" /\ SameJob(p)
    <2>1. "plan" \in {"idle"} \cup WalkSteps \cup OffboardSteps
      BY DEF WalkSteps
    <2>2. QED
      BY <1>0, <2>1, StepFacts DEF IInv
  <1>2. TypeOK'
    BY <1>0, <1>1, Alone DEF tf_init, IInv, TypeOK
  <1>3. PinIsVerified' /\ MarkIsBacked'
    BY DEF tf_init, IInv, PinIsVerified, MarkIsBacked
  <1>4. TermOk(p)' /\ term'[p].cmd = term[p].cmd /\ term[p].cmd # "offboard"
    BY <1>1, Alone DEF TermOk, WalkSteps, OffboardSteps, SameJob
  <1>5. orderly /\ term'[p].cmd = "upgrade" => WalkOk(p)' /\ GoodBehind(p)'
    <2> SUFFICES ASSUME orderly, term[p].cmd = "upgrade" PROVE WalkOk(p)' /\ GoodBehind(p)'
      BY <1>4
    <2>1. WalkOk(p) /\ GoodBehind(p)
      BY <1>1, Alone
    <2>2. GoodBehind(p)'
      BY <1>1, <2>1 DEF GoodBehind, SameJob, tf_init
    <2>3. WalkOk(p)'
      BY <1>0, <1>1, <2>1 DEF WalkOk, SameJob, tf_init
    <2>4. QED
      BY <2>2, <2>3
  <1>6. QED
    BY <1>1, <1>2, <1>3, <1>4, <1>5, Alone, Preserved DEF tf_init

\* A walk goes on to the next of its clients, or ends.
LEMMA NextTargetFacts ==
  ASSUME IInv, NEW p \in Terminals, NextTarget(p),
         term[p].pc \in {"plan", "sync tfvars"}
  PROVE  /\ term' \in [Terminals -> Commands]
         /\ \A q \in Terminals \ {p} : term'[q] = term[q]
         /\ TermOk(p)'
         /\ \/ term'[p].cmd = "none"
            \/ /\ term'[p].cmd = term[p].cmd /\ term'[p].pc = "init"
               /\ term'[p].version = term[p].version
               /\ term'[p].client \in term[p].todo
               /\ term'[p].todo \subseteq term[p].todo
               /\ term'[p].done = term[p].done \cup {term[p].client}
  <1>1. /\ term[p] \in Commands /\ term[p].client \in Clients /\ TermOk(p)
        /\ term \in [Terminals -> Commands]
    BY Alone DEF IInv, TypeOK
  <1>2. CASE term' = [term EXCEPT ![p] = Idle]
    <2>1. /\ term'[p] = Idle /\ term' \in [Terminals -> Commands]
          /\ \A q \in Terminals \ {p} : term'[q] = term[q]
      BY <1>1, <1>2, IdleType
    <2>2. QED
      BY <2>1, IdleOk
  <1>3. ASSUME NEW c \in term[p].todo,
               term' = [term EXCEPT ![p].pc = "init", ![p].client = c,
                                    ![p].todo = @ \ {c},
                                    ![p].done = @ \cup {term[p].client}]
        PROVE  /\ term' \in [Terminals -> Commands]
               /\ \A q \in Terminals \ {p} : term'[q] = term[q]
               /\ TermOk(p)'
               /\ term'[p].cmd = term[p].cmd /\ term'[p].pc = "init"
               /\ term'[p].version = term[p].version
               /\ term'[p].client \in term[p].todo
               /\ term'[p].todo \subseteq term[p].todo
               /\ term'[p].done = term[p].done \cup {term[p].client}
    <2> DEFINE t == [term[p] EXCEPT !.pc = "init", !.client = c, !.todo = @ \ {c},
                                    !.done = @ \cup {term[p].client}]
    <2>1. c \in Clients /\ "init" \in WalkSteps
      BY <1>1 DEF Commands, WalkSteps
    <2>2. /\ t \in Commands
          /\ t.pc = "init" /\ t.client = c /\ t.todo = term[p].todo \ {c}
          /\ t.done = term[p].done \cup {term[p].client}
          /\ t.cmd = term[p].cmd /\ t.version = term[p].version
      BY <1>1, <2>1 DEF Commands
    <2>3. /\ term'[p] = t /\ term' \in [Terminals -> Commands]
          /\ \A q \in Terminals \ {p} : term'[q] = term[q]
      BY <1>1, <1>3, <2>2
    <2> HIDE DEF t
    <2>4. TermOk(p)'
      <3>1. term[p].cmd \in {"preview", "upgrade"}
        BY <1>1 DEF TermOk, WalkSteps
      <3>2. /\ term[p].client \notin term[p].todo /\ term[p].todo \cap term[p].done = {}
        BY <1>1 DEF TermOk
      <3>3. t.client \notin t.todo \cup t.done /\ t.todo \cap t.done = {}
        BY <1>3, <2>2, <3>2
      <3>4. /\ t.pc = "init" /\ t.client \in Clients /\ t.cmd \in {"preview", "upgrade"}
        BY <2>1, <2>2, <3>1
      <3>5. "init" \notin OffboardSteps
        BY DEF OffboardSteps
      <3>6. QED
        BY <2>3, <3>3, <3>4, <3>5 DEF TermOk
    <2>5. QED
      BY <2>2, <2>3, <2>4
  <1>4. QED
    BY <1>2, <1>3 DEF NextTarget

\* The plan is one of that client's state.
LEMMA TfPlanIInv ==
  ASSUME IInv, NEW p \in Terminals, tf_plan(p)
  PROVE  IInv'
  <1>1. term[p].pc = "plan" /\ backend \in Clients /\ orderly' = orderly
    BY DEF tf_plan
  <1>2. PinIsVerified' /\ MarkIsBacked'
    BY DEF tf_plan, IInv, PinIsVerified, MarkIsBacked
  <1>3. CASE term[p].cmd = "preview"
    <2>1. NextTarget(p)
      BY <1>3 DEF tf_plan
    <2>2. TypeOK'
      BY <2>1, <1>1, NextTargetFacts DEF tf_plan, IInv, TypeOK
    <2>3. term'[p].cmd \notin {"upgrade", "offboard"}
      BY <2>1, <1>1, <1>3, NextTargetFacts
    <2>4. QED
      BY <1>1, <1>2, <2>1, <2>2, <2>3, NextTargetFacts, Alone, Preserved
  <1>4. CASE term[p].cmd # "preview"
    <2> DEFINE t == [term[p] EXCEPT !.pc = "apply", !.held = backend, !.plan = State(backend)]
    <2>1. /\ term[p] \in Commands /\ term[p].client \in Clients /\ TermOk(p)
          /\ term \in [Terminals -> Commands] /\ term[p].cmd = "upgrade"
      BY <1>1, <1>4, Alone DEF IInv, TypeOK, TermOk
    <2>2. State(backend) \in [live : Versions \cup {"nothing"}, left : SUBSET Managed]
      BY <1>1 DEF State, IInv, TypeOK
    <2>3. /\ t \in Commands
          /\ t.pc = "apply" /\ t.held = backend /\ t.client = term[p].client
          /\ t.todo = term[p].todo /\ t.done = term[p].done
          /\ t.cmd = term[p].cmd /\ t.version = term[p].version
      BY <1>1, <2>1, <2>2 DEF Commands, WalkSteps
    <2>4. /\ term'[p] = t /\ term' \in [Terminals -> Commands]
          /\ \A q \in Terminals \ {p} : term'[q] = term[q]
      BY <1>4, <2>1, <2>3 DEF tf_plan
    <2> HIDE DEF t
    <2>5. TypeOK'
      BY <2>4 DEF tf_plan, IInv, TypeOK
    <2>6. TermOk(p)'
      BY <1>1, <2>1, <2>3, <2>4 DEF TermOk, WalkSteps, OffboardSteps
    <2>7. ASSUME orderly PROVE WalkOk(p)' /\ GoodBehind(p)'
      <3>1. WalkOk(p) /\ GoodBehind(p)
        BY <1>1, <2>1, <2>7, Alone
      <3>2. GoodBehind(p)'
        BY <2>3, <2>4, <3>1 DEF GoodBehind, tf_plan
      <3>3. WalkOk(p)'
        BY <1>1, <2>3, <2>4, <3>1 DEF WalkOk, tf_plan
      <3>4. QED
        BY <3>2, <3>3
    <2>8. QED
      BY <1>1, <1>2, <2>1, <2>3, <2>4, <2>5, <2>6, <2>7, Alone, Preserved
  <1>5. QED
    BY <1>3, <1>4

\* The apply touches that client alone, and no client that is marked.
LEMMA TfApplyIInv ==
  ASSUME IInv, NEW p \in Terminals, tf_apply(p)
  PROVE  IInv'
  <1>1. PICK ready \in BOOLEAN :
          cloud' = Applied(term[p].client, term[p].held, term[p].version, ready)
    BY DEF tf_apply
  <1>2. PICK to \in {"output", "idle"} : Step(p, "apply", to)
    BY DEF tf_apply
  <1>3. /\ term' \in [Terminals -> Commands]
        /\ \A q \in Terminals \ {p} : term'[q] = term[q]
        /\ term[p].pc = "apply"
        /\ to = "idle" => term'[p] = Idle
        /\ to # "idle" => term'[p].pc = to /\ SameJob(p)
    <2>1. to \in {"idle"} \cup WalkSteps \cup OffboardSteps
      BY DEF WalkSteps
    <2>2. QED
      BY <1>2, <2>1, StepFacts DEF IInv
  <1>4. /\ term[p].client \in Clients /\ term[p].cmd = "upgrade" /\ TermOk(p)
        /\ term[p].version \in Versions
    BY <1>3, Alone DEF TermOk, WalkSteps, Commands
  <1>5. /\ cloud' \in [Clients -> [live : Versions \cup {"nothing"}, ready : BOOLEAN,
                                   left : SUBSET Kinds]]
        /\ cloud'[term[p].client].live = term[p].version
        /\ term[p].held = term[p].client =>
             \A d \in Clients \ {term[p].client} : cloud'[d] = cloud[d]
    <2>1. PICK c \in Clients, version \in Versions, b \in Clients \cup {NoClient} :
            c = term[p].client /\ version = term[p].version /\ b = term[p].held
      BY <1>3, <1>4, Alone DEF Commands
    <2>2. cloud' = Applied(c, b, version, ready) /\ TypeOK
      BY <1>1, <2>1 DEF IInv
    <2>3. /\ cloud' \in [Clients -> [live : Versions \cup {"nothing"}, ready : BOOLEAN,
                                    left : SUBSET Kinds]]
          /\ cloud'[c].live = version
          /\ b = c => \A d \in Clients \ {c} : cloud'[d] = cloud[d]
      BY <2>2 DEF TypeOK, Applied, Kinds
    <2>4. QED
      BY <2>1, <2>3
  <1>6. TypeOK'
    BY <1>3, <1>5 DEF tf_apply, IInv, TypeOK
  <1>7. TermOk(p)'
    <2>1. CASE to = "idle"
      BY <1>3, <2>1, IdleOk
    <2>2. CASE to = "output"
      BY <1>3, <1>4, <2>2 DEF TermOk, SameJob, WalkSteps, OffboardSteps
    <2>3. QED
      BY <2>1, <2>2
  <1>8. term'[p].cmd = "none" \/ (to = "output" /\ term'[p].cmd = "upgrade")
    BY <1>3, <1>4, IdleOk DEF SameJob
  <1>9. ASSUME orderly PROVE WalkOk(p) /\ GoodBehind(p) /\ term[p].held = term[p].client
    BY <1>3, <1>4, <1>9, Alone DEF WalkOk
  <1>10. PinIsVerified'
    BY DEF tf_apply, IInv, PinIsVerified
  <1>11. MarkIsBacked'
    <2>1. orderly => \A d \in Clients : manifest[d].offboarded => cloud'[d] = cloud[d]
      BY <1>5, <1>9 DEF WalkOk
    <2>2. QED
      BY <2>1 DEF tf_apply, IInv, MarkIsBacked
  <1>12. ASSUME orderly, to = "output" PROVE WalkOk(p)' /\ GoodBehind(p)'
    <2>1. GoodBehind(p)'
      <3>1. term[p].done \subseteq Clients /\ term[p].client \notin term[p].done
        BY <1>3, <1>4, Alone DEF TermOk, Commands
      <3>2. QED
        BY <1>3, <1>5, <1>9, <1>12, <3>1 DEF GoodBehind, SameJob, tf_apply
    <2>2. WalkOk(p)'
      BY <1>3, <1>5, <1>9, <1>12 DEF WalkOk, SameJob, tf_apply
    <2>3. QED
      BY <2>1, <2>2
  <1>13. orderly' = orderly
    BY DEF tf_apply
  <1>14. QED
    BY <1>3, <1>6, <1>7, <1>8, <1>10, <1>11, <1>12, <1>13, Alone, Preserved

\* The url is that client's.
LEMMA TfOutputIInv ==
  ASSUME IInv, NEW p \in Terminals, tf_output(p)
  PROVE  IInv'
  <1> DEFINE t == [term[p] EXCEPT !.pc = "verify", !.held = backend]
  <1>1. term[p].pc = "output" /\ backend \in Clients /\ orderly' = orderly
    BY DEF tf_output
  <1>2. /\ term[p] \in Commands /\ term[p].client \in Clients /\ TermOk(p)
        /\ term \in [Terminals -> Commands] /\ term[p].cmd = "upgrade"
    BY <1>1, Alone DEF IInv, TypeOK, TermOk, WalkSteps
  <1>3. /\ t \in Commands
        /\ t.pc = "verify" /\ t.held = backend /\ t.client = term[p].client
        /\ t.todo = term[p].todo /\ t.done = term[p].done
        /\ t.cmd = term[p].cmd /\ t.version = term[p].version
    BY <1>1, <1>2 DEF Commands, WalkSteps
  <1>4. /\ term'[p] = t /\ term' \in [Terminals -> Commands]
        /\ \A q \in Terminals \ {p} : term'[q] = term[q]
    BY <1>2, <1>3 DEF tf_output
  <1> HIDE DEF t
  <1>5. TypeOK'
    BY <1>4 DEF tf_output, IInv, TypeOK
  <1>6. TermOk(p)'
    BY <1>1, <1>2, <1>3, <1>4 DEF TermOk, WalkSteps, OffboardSteps
  <1>7. ASSUME orderly PROVE WalkOk(p)' /\ GoodBehind(p)'
    <2>1. WalkOk(p) /\ GoodBehind(p)
      BY <1>1, <1>2, <1>7, Alone
    <2>2. GoodBehind(p)'
      BY <1>3, <1>4, <2>1 DEF GoodBehind, tf_output
    <2>3. WalkOk(p)'
      BY <1>1, <1>3, <1>4, <2>1 DEF WalkOk, tf_output
    <2>4. QED
      BY <2>2, <2>3
  <1>8. PinIsVerified' /\ MarkIsBacked'
    BY DEF tf_output, IInv, PinIsVerified, MarkIsBacked
  <1>9. QED
    BY <1>1, <1>2, <1>3, <1>4, <1>5, <1>6, <1>7, <1>8, Alone, Preserved

\* What is verified is that client at the walk's version.
LEMMA VerifyIInv ==
  ASSUME IInv, NEW p \in Terminals, verify(p)
  PROVE  IInv'
  <1>1. /\ term' \in [Terminals -> Commands]
        /\ \A q \in Terminals \ {p} : term'[q] = term[q]
        /\ term[p].pc = "verify"
        /\ term'[p].pc = "pin" /\ SameJob(p)
    <2>1. Step(p, "verify", "pin") /\ "pin" \in {"idle"} \cup WalkSteps \cup OffboardSteps
      BY DEF verify, WalkSteps
    <2>2. QED
      BY <2>1, StepFacts DEF IInv
  <1>2. /\ term[p].client \in Clients /\ term[p].cmd = "upgrade" /\ TermOk(p)
        /\ term[p].held \in Clients
    BY <1>1, Alone DEF TermOk, WalkSteps
  <1>3. /\ served' = [served EXCEPT ![term[p].held] = @ \cup {cloud[term[p].held].live}]
        /\ cloud[term[p].held].live \in Versions /\ cloud[term[p].held].ready
    BY <1>2 DEF verify, IInv, TypeOK
  <1>4. TypeOK'
    <2>1. served' \in [Clients -> SUBSET Versions]
      BY <1>2, <1>3 DEF IInv, TypeOK
    <2>2. QED
      BY <1>1, <2>1 DEF verify, IInv, TypeOK
  <1>5. TermOk(p)'
    BY <1>1, <1>2 DEF TermOk, SameJob, WalkSteps, OffboardSteps
  <1>6. \A c \in Clients : served[c] \subseteq served'[c]
    BY <1>2, <1>3 DEF IInv, TypeOK
  <1>7. PinIsVerified' /\ MarkIsBacked'
    BY <1>6 DEF verify, IInv, PinIsVerified, MarkIsBacked
  <1>8. ASSUME orderly PROVE WalkOk(p)' /\ GoodBehind(p)'
    <2>1. WalkOk(p) /\ GoodBehind(p)
      BY <1>1, <1>2, <1>8, Alone
    <2>2. GoodBehind(p)'
      BY <1>1, <2>1 DEF GoodBehind, SameJob, verify
    <2>3. term[p].held = term[p].client /\ cloud[term[p].client].live = term[p].version
      BY <1>1, <2>1 DEF WalkOk
    <2>4. term[p].version \in served'[term[p].client]
      BY <1>2, <1>3, <2>3 DEF IInv, TypeOK
    <2>5. WalkOk(p)'
      BY <1>1, <1>3, <2>1, <2>3, <2>4 DEF WalkOk, SameJob, verify
    <2>6. QED
      BY <2>2, <2>5
  <1>9. orderly' = orderly /\ term'[p].cmd = "upgrade"
    BY <1>1, <1>2 DEF verify, SameJob
  <1>10. QED
    BY <1>1, <1>2, <1>4, <1>5, <1>7, <1>8, <1>9, Alone, Preserved

\* The text to write differs from the registry in one version.
LEMMA ReadForPinIInv ==
  ASSUME IInv, NEW p \in Terminals, ReadForPin(p)
  PROVE  IInv'
  <1> DEFINE new == [manifest EXCEPT ![term[p].client].version = term[p].version]
             t == [term[p] EXCEPT !.pc = "write pin", !.text = new]
  <1>1. term[p].pc = "pin" /\ orderly' = orderly
    BY DEF ReadForPin
  <1>2. /\ term[p] \in Commands /\ term[p].client \in Clients /\ TermOk(p)
        /\ term \in [Terminals -> Commands] /\ term[p].cmd = "upgrade"
        /\ term[p].version \in Versions
    BY <1>1, Alone DEF IInv, TypeOK, TermOk, WalkSteps, Commands
  <1>3. new \in Manifests
    BY <1>2 DEF IInv, TypeOK, Manifests
  <1>4. /\ t \in Commands
        /\ t.pc = "write pin" /\ t.text = new /\ t.client = term[p].client
        /\ t.todo = term[p].todo /\ t.done = term[p].done
        /\ t.cmd = term[p].cmd /\ t.version = term[p].version
    <2> HIDE DEF new
    <2>1. QED
      BY <1>2, <1>3 DEF Commands, WalkSteps
  <1>5. /\ term'[p] = t /\ term' \in [Terminals -> Commands]
        /\ \A q \in Terminals \ {p} : term'[q] = term[q]
    BY <1>2, <1>4 DEF ReadForPin
  <1>6. new = [manifest EXCEPT ![term[p].client].version = term[p].version]
    OBVIOUS
  <1> HIDE DEF t, new
  <1>7. TypeOK'
    BY <1>5 DEF ReadForPin, IInv, TypeOK
  <1>8. TermOk(p)'
    BY <1>2, <1>3, <1>4, <1>5 DEF TermOk, WalkSteps, OffboardSteps
  <1>9. ASSUME orderly PROVE WalkOk(p)' /\ GoodBehind(p)'
    <2>1. WalkOk(p) /\ GoodBehind(p)
      BY <1>1, <1>2, <1>9, Alone
    <2>2. GoodBehind(p)'
      BY <1>4, <1>5, <2>1 DEF GoodBehind, ReadForPin
    <2>3. WalkOk(p)'
      BY <1>1, <1>4, <1>5, <1>6, <2>1 DEF WalkOk, ReadForPin
    <2>4. QED
      BY <2>2, <2>3
  <1>10. PinIsVerified' /\ MarkIsBacked'
    BY DEF ReadForPin, IInv, PinIsVerified, MarkIsBacked
  <1>11. QED
    BY <1>1, <1>2, <1>4, <1>5, <1>7, <1>8, <1>9, <1>10, Alone, Preserved

\* The version written was served; no other entry changes.
LEMMA WritePinIInv ==
  ASSUME IInv, NEW p \in Terminals, WritePin(p)
  PROVE  IInv'
  <1>1. /\ term' \in [Terminals -> Commands]
        /\ \A q \in Terminals \ {p} : term'[q] = term[q]
        /\ term[p].pc = "write pin"
        /\ term'[p].pc = "sync tfvars" /\ SameJob(p)
    <2>1. /\ Step(p, "write pin", "sync tfvars")
          /\ "sync tfvars" \in {"idle"} \cup WalkSteps \cup OffboardSteps
      BY DEF WritePin, WalkSteps
    <2>2. QED
      BY <2>1, StepFacts DEF IInv
  <1>2. /\ term[p].client \in Clients /\ term[p].cmd = "upgrade" /\ TermOk(p)
        /\ term[p].text \in Manifests
    BY <1>1, Alone DEF TermOk, WalkSteps
  <1>3. manifest' = term[p].text /\ orderly' = orderly
    BY DEF WritePin
  <1>4. TypeOK'
    BY <1>1, <1>2, <1>3 DEF WritePin, IInv, TypeOK
  <1>5. TermOk(p)'
    BY <1>1, <1>2 DEF TermOk, SameJob, WalkSteps, OffboardSteps
  <1>6. ASSUME orderly
        PROVE  /\ WalkOk(p) /\ GoodBehind(p)
               /\ manifest'[term[p].client].version = term[p].version
               /\ \A d \in Clients : manifest'[d].offboarded = manifest[d].offboarded
               /\ \A d \in Clients \ {term[p].client} : manifest'[d] = manifest[d]
    <2>1. WalkOk(p) /\ GoodBehind(p)
      BY <1>1, <1>2, <1>6, Alone
    <2>2. manifest' = [manifest EXCEPT ![term[p].client].version = term[p].version]
      BY <1>1, <1>3, <2>1 DEF WalkOk
    <2>3. QED
      BY <1>2, <2>1, <2>2 DEF IInv, TypeOK, Manifests
  <1>7. PinIsVerified'
    <2>1. ASSUME orderly, NEW c \in Clients PROVE manifest'[c].version \in served[c]
      <3>1. CASE c = term[p].client
        BY <1>1, <1>6, <2>1, <3>1 DEF WalkOk
      <3>2. CASE c # term[p].client
        BY <1>6, <2>1, <3>2 DEF IInv, PinIsVerified
      <3>3. QED
        BY <3>1, <3>2
    <2>2. QED
      BY <2>1 DEF PinIsVerified, WritePin
  <1>8. MarkIsBacked'
    BY <1>6 DEF WritePin, IInv, MarkIsBacked
  <1>9. ASSUME orderly PROVE WalkOk(p)' /\ GoodBehind(p)'
    <2>1. /\ term[p].done \subseteq Clients /\ term[p].client \notin term[p].done
          /\ term[p].todo \subseteq Clients
      BY <1>1, <1>2, Alone DEF TermOk, Commands
    <2>2. cloud' = cloud /\ served' = served
      BY DEF WritePin
    <2>3. /\ term'[p].version = term[p].version /\ term'[p].client = term[p].client
          /\ term'[p].todo = term[p].todo /\ term'[p].done = term[p].done
      BY <1>1 DEF SameJob
    <2>4. GoodBehind(p)'
      <3> SUFFICES ASSUME NEW c \in term[p].done
                   PROVE  /\ cloud[c].live = term[p].version /\ cloud[c].ready
                          /\ manifest'[c].version = term[p].version
        BY <2>2, <2>3 DEF GoodBehind
      <3>1. c \in Clients \ {term[p].client}
        BY <2>1
      <3>2. manifest'[c] = manifest[c] /\ GoodBehind(p)
        BY <1>6, <1>9, <3>1
      <3>3. QED
        BY <3>2 DEF GoodBehind
    <2>5. WalkOk(p)'
      <3>1. \A d \in {term[p].client} \cup term[p].todo : ~manifest'[d].offboarded
        BY <1>2, <1>6, <1>9, <2>1 DEF WalkOk
      <3>2. /\ cloud[term[p].client].live = term[p].version /\ cloud[term[p].client].ready
            /\ term[p].version \in served[term[p].client]
        BY <1>1, <1>6, <1>9 DEF WalkOk
      <3>3. manifest'[term[p].client].version = term[p].version
        BY <1>6, <1>9
      <3>4. QED
        BY <1>1, <2>2, <2>3, <3>1, <3>2, <3>3 DEF WalkOk
    <2>6. QED
      BY <2>4, <2>5
  <1>10. term'[p].cmd = "upgrade"
    BY <1>1, <1>2 DEF SameJob
  <1>11. QED
    BY <1>1, <1>3, <1>4, <1>5, <1>7, <1>8, <1>9, <1>10, Alone, Preserved

\* The client joins the ones behind the walk.
LEMMA SyncTfvarsIInv ==
  ASSUME IInv, NEW p \in Terminals, SyncTfvars(p)
  PROVE  IInv'
  <1>1. term[p].pc = "sync tfvars" /\ NextTarget(p) /\ orderly' = orderly
    BY DEF SyncTfvars
  <1>2. /\ term[p].client \in Clients /\ term[p].cmd = "upgrade" /\ TermOk(p)
        /\ term[p].version \in Versions /\ term[p].todo \subseteq Clients
    BY <1>1, Alone DEF TermOk, WalkSteps, Commands
  <1>3. TypeOK'
    <2>1. tfvars' \in Tfvars
      BY <1>2 DEF SyncTfvars, IInv, TypeOK, Tfvars
    <2>2. QED
      BY <1>1, <2>1, NextTargetFacts DEF SyncTfvars, IInv, TypeOK
  <1>4. PinIsVerified' /\ MarkIsBacked'
    BY DEF SyncTfvars, IInv, PinIsVerified, MarkIsBacked
  <1>5. ASSUME orderly, term'[p].cmd = "upgrade" PROVE WalkOk(p)' /\ GoodBehind(p)'
    <2>1. WalkOk(p) /\ GoodBehind(p)
      BY <1>1, <1>2, <1>5, Alone
    <2>2. /\ term'[p].pc = "init" /\ term'[p].version = term[p].version
          /\ term'[p].client \in term[p].todo
          /\ term'[p].todo \subseteq term[p].todo
          /\ term'[p].done = term[p].done \cup {term[p].client}
      BY <1>1, <1>5, NextTargetFacts
    <2>3. manifest' = manifest /\ cloud' = cloud
      BY DEF SyncTfvars
    <2>4. GoodBehind(p)'
      <3>1. /\ cloud[term[p].client].live = term[p].version /\ cloud[term[p].client].ready
            /\ manifest[term[p].client].version = term[p].version
        BY <1>1, <2>1 DEF WalkOk
      <3>2. QED
        BY <2>1, <2>2, <2>3, <3>1 DEF GoodBehind
    <2>5. WalkOk(p)'
      <3>1. \A d \in term[p].todo : ~manifest[d].offboarded
        BY <2>1 DEF WalkOk
      <3>2. QED
        BY <2>2, <2>3, <3>1 DEF WalkOk
    <2>6. QED
      BY <2>4, <2>5
  <1>6. term'[p].cmd # "offboard"
    BY <1>1, <1>2, NextTargetFacts
  <1>7. QED
    BY <1>1, <1>3, <1>4, <1>5, <1>6, NextTargetFacts, Alone, Preserved

\* Numbers of writes.
LEMMA Numbers ==
  /\ \A n \in 1 .. MaxWrites : n \in 0 .. MaxWrites
  /\ \A n \in 0 .. MaxWrites : n \in Nat /\ n <= n
  /\ \A m, n \in 0 .. MaxWrites : (IF m > n THEN m ELSE n) \in 0 .. MaxWrites
  /\ \A m, n \in 0 .. MaxWrites : m <= (IF m > n THEN m ELSE n)
  /\ \A k, m, n \in 0 .. MaxWrites : k <= m /\ m <= n => k <= n
  BY BoundsAssumption

\* A command begins: nothing but its terminal changes.
LEMMA BeginFacts ==
  ASSUME IInv, NEW p \in Terminals, NEW command \in Commands, Begin(p, command)
  PROVE  /\ term'[p] = command
         /\ \A q \in Terminals \ {p} : term'[q] = term[q]
         /\ orderly => \A q \in Terminals \ {p} : term[q].pc = "idle"
         /\ orderly' = orderly /\ manifest' = manifest /\ cloud' = cloud
         /\ data' = data /\ archive' = archive
         /\ TypeOK' /\ PinIsVerified' /\ MarkIsBacked'
  <1>1. term' = [term EXCEPT ![p] = command] /\ term \in [Terminals -> Commands]
    BY DEF Begin, IInv, TypeOK
  <1>2. started' \in 0 .. MaxCommands
    BY BoundsAssumption DEF Begin, IInv, TypeOK
  <1>3. TypeOK'
    BY <1>1, <1>2 DEF Begin, IInv, TypeOK
  <1>4. PinIsVerified' /\ MarkIsBacked'
    BY DEF Begin, IInv, PinIsVerified, MarkIsBacked
  <1>5. QED
    BY <1>1, <1>3, <1>4 DEF Begin

\* A walk begins with clients that are not marked.
LEMMA StartUpgradeIInv ==
  ASSUME IInv, NEW p \in Terminals, NEW version \in Releases,
         NEW only \in Clients \cup {NoClient}, NEW dry_run \in BOOLEAN,
         StartUpgrade(p, version, only, dry_run)
  PROVE  IInv'
  <1>1. PICK targets \in SUBSET Clients : targets = resolve_targets(only)
    BY DEF resolve_targets
  <1>2. \A d \in targets : ~manifest[d].offboarded
    BY <1>1 DEF resolve_targets
  <1>3. PICK c \in targets :
          Begin(p, [Idle EXCEPT !.pc = "init", !.version = version,
                                !.cmd = IF dry_run THEN "preview" ELSE "upgrade",
                                !.client = c, !.todo = targets \ {c},
                                !.latest = {d \in targets : tfvars[d] = Latest}])
    BY <1>1 DEF StartUpgrade
  <1>4. PICK latest \in SUBSET Clients : latest = {d \in targets : tfvars[d] = Latest}
    OBVIOUS
  <1>5. PICK cmd \in {"preview", "upgrade"} : cmd = IF dry_run THEN "preview" ELSE "upgrade"
    OBVIOUS
  <1> DEFINE k == [Idle EXCEPT !.pc = "init", !.version = version, !.cmd = cmd,
                               !.client = c, !.todo = targets \ {c}, !.latest = latest]
  <1>6. /\ k \in Commands
        /\ k.pc = "init" /\ k.cmd = cmd /\ k.client = c
        /\ k.todo = targets \ {c} /\ k.done = {}
    BY IdleType, IdleFields DEF Commands, WalkSteps, Versions
  <1>7. Begin(p, k)
    BY <1>3, <1>4, <1>5
  <1> HIDE DEF k
  <1>8. term'[p] = k /\ manifest' = manifest
    BY <1>6, <1>7, BeginFacts
  <1>9. TermOk(p)'
    BY <1>6, <1>8 DEF TermOk, WalkSteps, OffboardSteps
  <1>10. WalkOk(p)' /\ GoodBehind(p)'
    BY <1>2, <1>6, <1>8 DEF WalkOk, GoodBehind
  <1>11. term'[p].cmd # "offboard"
    BY <1>6, <1>8
  <1>12. QED
    BY <1>6, <1>7, <1>9, <1>10, <1>11, BeginFacts, Preserved

\* Where run goes after the export, and that a mark without proof says so.
LEMMA AfterExportFacts ==
  ASSUME NEW args \in Args, NEW c
  PROVE  /\ args.export_only => AfterExport(args, c) = "idle"
         /\ ~args.export_only => AfterExport(args, c) \in {"mark", "init destroy", "probe"}
         /\ AfterExport(args, c) = "mark" => ~Proves(args, c)
  <1>1. _effective_mode(args, c) \in {"hosted", "client-infra"}
    BY DEF _effective_mode, posture, Args
  <1>2. args.export_only \in BOOLEAN /\ args.skip_destroy \in BOOLEAN /\ args.skip_verify \in BOOLEAN
    BY DEF Args
  <1>3. CASE args.export_only
    BY <1>3 DEF AfterExport
  <1>4. CASE ~args.export_only /\ _effective_mode(args, c) = "client-infra"
    BY <1>4 DEF AfterExport, Proves
  <1>5. CASE ~args.export_only /\ _effective_mode(args, c) = "hosted"
    <2>1. AfterExport(args, c) = CASE ~args.skip_destroy -> "init destroy"
             [] args.skip_destroy /\ ~args.skip_verify -> "probe"
             [] args.skip_destroy /\ args.skip_verify -> "mark"
      BY <1>5 DEF AfterExport
    <2>2. QED
      BY <1>2, <1>5, <2>1 DEF Proves
  <1>6. QED
    BY <1>1, <1>3, <1>4, <1>5

\* An offboarding begins; one that skips to the mark claims no proof.
LEMMA StartOffboardIInv ==
  ASSUME IInv, NEW p \in Terminals, NEW c \in Clients, NEW args \in OffboardArgs,
         StartOffboard(p, c, args)
  PROVE  IInv'
  <1>1. /\ args \in Args
        /\ ~(args.export_only /\ args.skip_export)
    BY ArgsAssumption DEF parse_args
  <1>2. PICK pc \in {"mark", "export", "init destroy", "probe"} :
          /\ pc = IF args.mark_only THEN "mark"
                  ELSE IF args.skip_export THEN AfterExport(args, c) ELSE "export"
          /\ pc = "mark" => ~Proves(args, c)
          /\ pc = "init destroy" => args.skip_export
    <2>1. CASE args.mark_only
      BY <2>1 DEF Proves
    <2>2. CASE ~args.mark_only /\ args.skip_export
      BY <1>1, <2>2, AfterExportFacts
    <2>3. CASE ~args.mark_only /\ ~args.skip_export
      BY <2>3
    <2>4. QED
      BY <2>1, <2>2, <2>3
  <1>3. PICK base \in 0 .. MaxWrites : base = data[c]
    <2>1. data[c] \in 1 .. MaxWrites
      BY DEF IInv, TypeOK
    <2>2. data[c] \in 0 .. MaxWrites
      BY <2>1, Numbers
    <2>3. QED
      BY <2>2
  <1> DEFINE k == [Idle EXCEPT !.cmd = "offboard", !.args = args, !.base = base,
                               !.client = c, !.pc = pc]
  <1>4. /\ k \in Commands
        /\ k.pc = pc /\ k.cmd = "offboard" /\ k.client = c /\ k.args = args
        /\ k.base = base /\ k.todo = {} /\ k.done = {}
    BY <1>1, IdleType, IdleFields DEF Commands, OffboardSteps
  <1>5. Begin(p, k)
    BY <1>2, <1>3 DEF StartOffboard
  <1> HIDE DEF k
  <1>6. term'[p] = k /\ data' = data
    BY <1>4, <1>5, BeginFacts
  <1>7. TermOk(p)'
    BY <1>4, <1>6 DEF TermOk, WalkSteps, OffboardSteps
  <1>8. OffboardOk(p)'
    <2>1. base <= data[c]
      BY <1>3, Numbers
    <2>2. QED
      BY <1>2, <1>4, <1>6, <2>1 DEF OffboardOk
  <1>9. QED
    BY <1>4, <1>5, <1>6, <1>7, <1>8, BeginFacts, Preserved

\* The dump holds what was there when the command began.
LEMMA ExportIInv ==
  ASSUME IInv, NEW p \in Terminals, Export(p)
  PROVE  IInv'
  <1>1. term[p].pc = "export" /\ orderly' = orderly
    BY DEF Export
  <1>2. /\ term[p] \in Commands /\ term[p].client \in Clients /\ TermOk(p)
        /\ term \in [Terminals -> Commands] /\ term[p].cmd = "offboard"
    BY <1>1, Alone DEF IInv, TypeOK, TermOk, OffboardSteps
  <1>3. PICK dump \in 0 .. MaxWrites : dump = data[term[p].client]
    <2>1. data[term[p].client] \in 1 .. MaxWrites
      BY <1>2 DEF IInv, TypeOK
    <2>2. data[term[p].client] \in 0 .. MaxWrites
      BY <2>1, Numbers
    <2>3. QED
      BY <2>2
  <1> DEFINE t == [term[p] EXCEPT !.pc = "deliver", !.dump = dump]
  <1>4. /\ t \in Commands
        /\ t.pc = "deliver" /\ t.dump = dump /\ t.client = term[p].client
        /\ t.todo = term[p].todo /\ t.done = term[p].done
        /\ t.cmd = term[p].cmd /\ t.base = term[p].base
    BY <1>2 DEF Commands, OffboardSteps
  <1>5. /\ term'[p] = t /\ term' \in [Terminals -> Commands]
        /\ \A q \in Terminals \ {p} : term'[q] = term[q]
    BY <1>2, <1>3, <1>4 DEF Export
  <1> HIDE DEF t
  <1>6. TypeOK'
    BY <1>5 DEF Export, IInv, TypeOK
  <1>7. TermOk(p)'
    BY <1>2, <1>4, <1>5 DEF TermOk, WalkSteps, OffboardSteps
  <1>8. ASSUME orderly PROVE OffboardOk(p)'
    <2>1. term[p].base <= data[term[p].client] /\ data' = data
      BY <1>1, <1>2, <1>8, Alone DEF OffboardOk, Export
    <2>2. QED
      BY <1>3, <1>4, <1>5, <2>1 DEF OffboardOk
  <1>9. PinIsVerified' /\ MarkIsBacked'
    BY DEF Export, IInv, PinIsVerified, MarkIsBacked
  <1>10. QED
    BY <1>1, <1>2, <1>4, <1>5, <1>6, <1>7, <1>8, <1>9, Alone, Preserved

\* What was dumped is in the archive that is delivered.
LEMMA DeliverIInv ==
  ASSUME IInv, NEW p \in Terminals, deliver(p)
  PROVE  IInv'
  <1>1. term[p].pc = "deliver" /\ orderly' = orderly /\ data' = data
    BY DEF deliver, Step
  <1>2. /\ term[p] \in Commands /\ term[p].client \in Clients /\ TermOk(p)
        /\ term[p].cmd = "offboard"
    BY <1>1, Alone DEF TermOk, OffboardSteps
  <1>3. PICK to \in {"idle", "mark", "init destroy", "probe"} :
          /\ Step(p, "deliver", to)
          /\ to = "mark" => ~Proves(term[p].args, term[p].client)
    <2>1. term[p].args \in Args
      BY <1>2 DEF Commands
    <2>2. PICK args \in Args, c \in Clients : args = term[p].args /\ c = term[p].client
      BY <1>2, <2>1
    <2>3. Step(p, "deliver", AfterExport(args, c))
      BY <2>2 DEF deliver
    <2>4. /\ AfterExport(args, c) \in {"idle", "mark", "init destroy", "probe"}
          /\ AfterExport(args, c) = "mark" => ~Proves(args, c)
      BY AfterExportFacts
    <2>5. QED
      BY <2>2, <2>3, <2>4
  <1>4. /\ term' \in [Terminals -> Commands]
        /\ \A q \in Terminals \ {p} : term'[q] = term[q]
        /\ to = "idle" => term'[p] = Idle
        /\ to # "idle" => term'[p].pc = to /\ SameJob(p)
    <2>1. to \in {"idle"} \cup WalkSteps \cup OffboardSteps
      BY DEF OffboardSteps
    <2>2. QED
      BY <1>3, <2>1, StepFacts DEF IInv
  <1>5. /\ archive' \in [Clients -> 0 .. MaxWrites]
        /\ term[p].dump <= archive'[term[p].client]
    <2>1. /\ term[p].dump \in 0 .. MaxWrites
          /\ archive \in [Clients -> 0 .. MaxWrites]
          /\ archive[term[p].client] \in 0 .. MaxWrites
      BY <1>2 DEF Commands, IInv, TypeOK
    <2>2. archive' = [archive EXCEPT ![term[p].client] = term[p].dump]
      BY DEF deliver
    <2>3. archive'[term[p].client] = term[p].dump
      BY <1>2, <2>1, <2>2
    <2>4. PICK dump \in 0 .. MaxWrites : dump = term[p].dump
      BY <2>1
    <2>5. dump <= dump
      BY Numbers
    <2>6. QED
      BY <1>2, <2>1, <2>2, <2>3, <2>4, <2>5
  <1>6. TypeOK'
    BY <1>4, <1>5 DEF deliver, IInv, TypeOK
  <1>7. TermOk(p)'
    <2>1. CASE to = "idle"
      BY <1>4, <2>1, IdleOk
    <2>2. CASE to # "idle"
      BY <1>2, <1>4, <2>2 DEF TermOk, SameJob, WalkSteps, OffboardSteps
    <2>3. QED
      BY <2>1, <2>2
  <1>8. term'[p].cmd = "none" \/ (to # "idle" /\ term'[p].cmd = "offboard")
    BY <1>2, <1>4, IdleOk DEF SameJob
  <1>9. ASSUME orderly, to # "idle" PROVE OffboardOk(p)'
    <2>1. term[p].base <= data[term[p].client] /\ term[p].base <= term[p].dump
      BY <1>1, <1>2, <1>9, Alone DEF OffboardOk
    <2>2. term[p].base <= archive'[term[p].client]
      <3>1. /\ term[p].base \in 0 .. MaxWrites /\ term[p].dump \in 0 .. MaxWrites
            /\ archive'[term[p].client] \in 0 .. MaxWrites
        BY <1>2, <1>5 DEF Commands
      <3>2. PICK base, dump, last \in 0 .. MaxWrites :
              /\ base = term[p].base /\ dump = term[p].dump
              /\ last = archive'[term[p].client]
        BY <3>1
      <3>3. base <= dump /\ dump <= last
        BY <1>5, <2>1, <3>2
      <3>4. base <= last
        BY <3>3, Numbers
      <3>5. QED
        BY <3>2, <3>4
    <2>3. /\ term'[p].base = term[p].base /\ term'[p].client = term[p].client
          /\ term'[p].args = term[p].args /\ term'[p].pc = to
      BY <1>4, <1>9 DEF SameJob
    <2>4. QED
      BY <1>1, <1>3, <2>1, <2>2, <2>3 DEF OffboardOk
  <1>10. PinIsVerified' /\ MarkIsBacked'
    BY DEF deliver, IInv, PinIsVerified, MarkIsBacked
  <1>11. QED
    BY <1>1, <1>4, <1>6, <1>7, <1>8, <1>9, <1>10, Alone, Preserved

\* The destroy is pointed at the command's client.
LEMMA InitDestroyIInv ==
  ASSUME IInv, NEW p \in Terminals, InitDestroy(p)
  PROVE  IInv'
  <1>1. /\ term' \in [Terminals -> Commands]
        /\ \A q \in Terminals \ {p} : term'[q] = term[q]
        /\ term[p].pc = "init destroy"
        /\ term'[p].pc = "destroy" /\ SameJob(p)
    <2>1. /\ Step(p, "init destroy", "destroy")
          /\ "destroy" \in {"idle"} \cup WalkSteps \cup OffboardSteps
      BY DEF InitDestroy, OffboardSteps
    <2>2. QED
      BY <2>1, StepFacts DEF IInv
  <1>2. /\ term[p].client \in Clients /\ TermOk(p) /\ term[p].cmd = "offboard"
        /\ term'[p].cmd = "offboard"
    BY <1>1, Alone DEF TermOk, OffboardSteps, SameJob
  <1>3. /\ backend' = term[p].client /\ orderly' = orderly
        /\ data' = data /\ archive' = archive
    BY DEF InitDestroy
  <1>4. TypeOK'
    BY <1>1, <1>2, <1>3 DEF InitDestroy, IInv, TypeOK
  <1>5. TermOk(p)'
    BY <1>1, <1>2 DEF TermOk, SameJob, WalkSteps, OffboardSteps
  <1>6. ASSUME orderly PROVE OffboardOk(p)'
    <2>1. /\ term[p].base <= data[term[p].client]
          /\ term[p].args.skip_export \/ term[p].base <= archive[term[p].client]
      BY <1>1, <1>2, <1>6, Alone DEF OffboardOk
    <2>2. QED
      BY <1>1, <1>3, <2>1 DEF OffboardOk, SameJob
  <1>7. PinIsVerified' /\ MarkIsBacked'
    BY DEF InitDestroy, IInv, PinIsVerified, MarkIsBacked
  <1>8. QED
    BY <1>1, <1>2, <1>3, <1>4, <1>5, <1>6, <1>7, Alone, Preserved

\* The destroy only takes away; a mark that follows unverified claims no proof.
LEMMA TfDestroyIInv ==
  ASSUME IInv, NEW p \in Terminals, tf_destroy(p)
  PROVE  IInv'
  <1>1. PICK gone \in SUBSET Managed, to \in {"idle", "mark", "probe"} :
          /\ Step(p, "destroy", to)
          /\ to = "mark" => term[p].args.skip_verify
          /\ cloud' = [cloud EXCEPT ![backend].left = @ \ gone,
                         ![backend].live = IF "probed" \in gone THEN "nothing" ELSE @,
                         ![backend].ready = @ /\ "probed" \notin gone]
    <2>1. PICK gone \in SUBSET Managed :
            /\ \/ Step(p, "destroy", IF term[p].args.skip_verify THEN "mark" ELSE "probe")
               \/ Step(p, "destroy", "idle")
            /\ cloud' = [cloud EXCEPT ![backend].left = @ \ gone,
                           ![backend].live = IF "probed" \in gone THEN "nothing" ELSE @,
                           ![backend].ready = @ /\ "probed" \notin gone]
      BY DEF tf_destroy
    <2>2. CASE Step(p, "destroy", "idle")
      BY <2>1, <2>2
    <2>3. CASE Step(p, "destroy", IF term[p].args.skip_verify THEN "mark" ELSE "probe")
      <3>1. CASE term[p].args.skip_verify
        BY <2>1, <2>3, <3>1
      <3>2. CASE ~term[p].args.skip_verify
        BY <2>1, <2>3, <3>2
      <3>3. QED
        BY <3>1, <3>2
    <2>4. QED
      BY <2>1, <2>2, <2>3
  <1>2. /\ term' \in [Terminals -> Commands]
        /\ \A q \in Terminals \ {p} : term'[q] = term[q]
        /\ term[p].pc = "destroy"
        /\ to = "idle" => term'[p] = Idle
        /\ to # "idle" => term'[p].pc = to /\ SameJob(p)
    <2>1. to \in {"idle"} \cup WalkSteps \cup OffboardSteps
      BY DEF OffboardSteps
    <2>2. QED
      BY <1>1, <2>1, StepFacts DEF IInv
  <1>3. /\ term[p].client \in Clients /\ TermOk(p) /\ term[p].cmd = "offboard"
    BY <1>2, Alone DEF TermOk, OffboardSteps
  <1>4. /\ cloud' \in [Clients -> [live : Versions \cup {"nothing"}, ready : BOOLEAN,
                                   left : SUBSET Kinds]]
        /\ \A c \in Clients : cloud'[c].left \subseteq cloud[c].left
    <2>1. PICK b \in Clients : b = backend
      BY DEF tf_destroy
    <2>2. /\ cloud \in [Clients -> [live : Versions \cup {"nothing"}, ready : BOOLEAN,
                                    left : SUBSET Kinds]]
          /\ cloud[b].ready \in BOOLEAN
      BY DEF IInv, TypeOK
    <2>3. PICK ready \in BOOLEAN : ready = (cloud[b].ready /\ "probed" \notin gone)
      BY <2>2
    <2>4. PICK live \in Versions \cup {"nothing"} :
            live = IF "probed" \in gone THEN "nothing" ELSE cloud[b].live
      BY <2>2
    <2>5. cloud' = [cloud EXCEPT ![b].left = @ \ gone, ![b].live = live, ![b].ready = ready]
      BY <1>1, <2>1, <2>3, <2>4
    <2>6. QED
      BY ZenonT(60), <2>2, <2>5
  <1>5. TypeOK'
    BY <1>2, <1>4 DEF tf_destroy, IInv, TypeOK
  <1>6. TermOk(p)'
    <2>1. CASE to = "idle"
      BY <1>2, <2>1, IdleOk
    <2>2. CASE to # "idle"
      BY <1>2, <1>3, <2>2 DEF TermOk, SameJob, WalkSteps, OffboardSteps
    <2>3. QED
      BY <2>1, <2>2
  <1>7. term'[p].cmd = "none" \/ (to # "idle" /\ term'[p].cmd = "offboard")
    BY <1>2, <1>3, IdleOk DEF SameJob
  <1>8. ASSUME orderly, to # "idle" PROVE OffboardOk(p)'
    <2>1. term[p].base <= data[term[p].client] /\ data' = data
      BY <1>2, <1>3, <1>8, Alone DEF OffboardOk, tf_destroy
    <2>2. /\ term'[p].base = term[p].base /\ term'[p].client = term[p].client
          /\ term'[p].args = term[p].args /\ term'[p].pc = to
      BY <1>2, <1>8 DEF SameJob
    <2>3. to = "mark" => ~Proves(term[p].args, term[p].client)
      BY <1>1 DEF Proves
    <2>4. QED
      BY <1>8, <2>1, <2>2, <2>3 DEF OffboardOk
  <1>9. PinIsVerified' /\ MarkIsBacked'
    BY <1>4 DEF tf_destroy, IInv, PinIsVerified, MarkIsBacked
  <1>10. orderly' = orderly
    BY DEF tf_destroy
  <1>11. QED
    BY <1>2, <1>5, <1>6, <1>7, <1>8, <1>9, <1>10, Alone, Preserved

\* The look at the state is pointed at the command's client.
LEMMA ProbeIInv ==
  ASSUME IInv, NEW p \in Terminals, Probe(p)
  PROVE  IInv'
  <1>1. /\ term' \in [Terminals -> Commands]
        /\ \A q \in Terminals \ {p} : term'[q] = term[q]
        /\ term[p].pc = "probe"
        /\ term'[p].pc = "state list" /\ SameJob(p)
    <2>1. /\ Step(p, "probe", "state list")
          /\ "state list" \in {"idle"} \cup WalkSteps \cup OffboardSteps
      BY DEF Probe, OffboardSteps
    <2>2. QED
      BY <2>1, StepFacts DEF IInv
  <1>2. /\ term[p].client \in Clients /\ TermOk(p) /\ term[p].cmd = "offboard"
        /\ term'[p].cmd = "offboard"
    BY <1>1, Alone DEF TermOk, OffboardSteps, SameJob
  <1>3. backend' = term[p].client /\ orderly' = orderly /\ data' = data
    BY DEF Probe
  <1>4. TypeOK'
    BY <1>1, <1>2, <1>3 DEF Probe, IInv, TypeOK
  <1>5. TermOk(p)'
    BY <1>1, <1>2 DEF TermOk, SameJob, WalkSteps, OffboardSteps
  <1>6. ASSUME orderly PROVE OffboardOk(p)'
    <2>1. term[p].base <= data[term[p].client]
      BY <1>1, <1>2, <1>6, Alone DEF OffboardOk
    <2>2. QED
      BY <1>1, <1>3, <2>1 DEF OffboardOk, SameJob
  <1>7. PinIsVerified' /\ MarkIsBacked'
    BY DEF Probe, IInv, PinIsVerified, MarkIsBacked
  <1>8. QED
    BY <1>1, <1>2, <1>3, <1>4, <1>5, <1>6, <1>7, Alone, Preserved

\* An empty state is the proof that the mark claims.
LEMMA StateEmptyIInv ==
  ASSUME IInv, NEW p \in Terminals, verify_tf_state_empty(p)
  PROVE  IInv'
  <1>1. /\ term' \in [Terminals -> Commands]
        /\ \A q \in Terminals \ {p} : term'[q] = term[q]
        /\ term[p].pc = "state list"
        /\ term'[p].pc = "mark" /\ SameJob(p)
    <2>1. /\ Step(p, "state list", "mark")
          /\ "mark" \in {"idle"} \cup WalkSteps \cup OffboardSteps
      BY DEF verify_tf_state_empty, OffboardSteps
    <2>2. QED
      BY <2>1, StepFacts DEF IInv
  <1>2. /\ term[p].client \in Clients /\ TermOk(p) /\ term[p].cmd = "offboard"
        /\ term'[p].cmd = "offboard"
    BY <1>1, Alone DEF TermOk, OffboardSteps, SameJob
  <1>3. orderly' = orderly /\ data' = data /\ cloud' = cloud
    BY DEF verify_tf_state_empty
  <1>4. TypeOK'
    BY <1>1 DEF verify_tf_state_empty, IInv, TypeOK
  <1>5. TermOk(p)'
    BY <1>1, <1>2 DEF TermOk, SameJob, WalkSteps, OffboardSteps
  <1>6. ASSUME orderly PROVE OffboardOk(p)'
    <2>1. term[p].base <= data[term[p].client] /\ backend = term[p].client
      BY <1>1, <1>2, <1>6, Alone DEF OffboardOk
    <2>2. cloud[term[p].client].left \cap Managed = {}
      BY <2>1 DEF verify_tf_state_empty
    <2>3. QED
      BY <1>1, <1>3, <2>1, <2>2 DEF OffboardOk, SameJob
  <1>7. PinIsVerified' /\ MarkIsBacked'
    BY DEF verify_tf_state_empty, IInv, PinIsVerified, MarkIsBacked
  <1>8. QED
    BY <1>1, <1>2, <1>3, <1>4, <1>5, <1>6, <1>7, Alone, Preserved

\* The text to write differs from the registry in one mark.
LEMMA ReadForMarkIInv ==
  ASSUME IInv, NEW p \in Terminals, ReadForMark(p)
  PROVE  IInv'
  <1> DEFINE new == [manifest EXCEPT ![term[p].client].offboarded = TRUE]
             t == [term[p] EXCEPT !.pc = "write mark", !.text = new]
  <1>1. term[p].pc = "mark" /\ orderly' = orderly
    BY DEF ReadForMark
  <1>2. /\ term[p] \in Commands /\ term[p].client \in Clients /\ TermOk(p)
        /\ term \in [Terminals -> Commands] /\ term[p].cmd = "offboard"
    BY <1>1, Alone DEF IInv, TypeOK, TermOk, OffboardSteps
  <1>3. new \in Manifests
    BY <1>2 DEF IInv, TypeOK, Manifests
  <1>4. /\ t \in Commands
        /\ t.pc = "write mark" /\ t.text = new /\ t.client = term[p].client
        /\ t.todo = term[p].todo /\ t.done = term[p].done
        /\ t.cmd = term[p].cmd /\ t.base = term[p].base /\ t.args = term[p].args
    <2> HIDE DEF new
    <2>1. QED
      BY <1>2, <1>3 DEF Commands, OffboardSteps
  <1>5. /\ term'[p] = t /\ term' \in [Terminals -> Commands]
        /\ \A q \in Terminals \ {p} : term'[q] = term[q]
    BY <1>2, <1>4 DEF ReadForMark
  <1>6. new = [manifest EXCEPT ![term[p].client].offboarded = TRUE]
    OBVIOUS
  <1> HIDE DEF t, new
  <1>7. TypeOK'
    BY <1>5 DEF ReadForMark, IInv, TypeOK
  <1>8. TermOk(p)'
    BY <1>2, <1>3, <1>4, <1>5 DEF TermOk, WalkSteps, OffboardSteps
  <1>9. ASSUME orderly PROVE OffboardOk(p)'
    <2>1. /\ term[p].base <= data[term[p].client]
          /\ Proves(term[p].args, term[p].client) =>
               cloud[term[p].client].left \cap Managed = {}
      BY <1>1, <1>2, <1>9, Alone DEF OffboardOk
    <2>2. data' = data /\ cloud' = cloud /\ manifest' = manifest
      BY DEF ReadForMark
    <2>3. QED
      BY <1>4, <1>5, <1>6, <2>1, <2>2 DEF OffboardOk
  <1>10. PinIsVerified' /\ MarkIsBacked'
    BY DEF ReadForMark, IInv, PinIsVerified, MarkIsBacked
  <1>11. QED
    BY <1>1, <1>2, <1>4, <1>5, <1>7, <1>8, <1>9, <1>10, Alone, Preserved

\* The mark is backed or said to be unproved; no other entry changes.
LEMMA WriteMarkIInv ==
  ASSUME IInv, NEW p \in Terminals, WriteMark(p)
  PROVE  IInv'
  <1>1. /\ term' \in [Terminals -> Commands]
        /\ \A q \in Terminals \ {p} : term'[q] = term[q]
        /\ term[p].pc = "write mark" /\ term'[p] = Idle
    <2>1. Step(p, "write mark", "idle")
      BY DEF WriteMark
    <2>2. QED
      BY <2>1, StepFacts DEF IInv
  <1>2. /\ term[p].client \in Clients /\ TermOk(p) /\ term[p].cmd = "offboard"
        /\ term[p].text \in Manifests
    BY <1>1, Alone DEF TermOk, OffboardSteps
  <1>3. /\ manifest' = term[p].text /\ orderly' = orderly
        /\ unproved' = IF Proves(term[p].args, term[p].client)
                       THEN unproved \ {term[p].client}
                       ELSE unproved \cup {term[p].client}
    BY DEF WriteMark
  <1>4. TypeOK'
    <2>1. unproved' \subseteq Clients
      BY <1>2, <1>3 DEF IInv, TypeOK
    <2>2. QED
      BY <1>1, <1>2, <1>3, <2>1 DEF WriteMark, IInv, TypeOK
  <1>5. ASSUME orderly
        PROVE  /\ \A d \in Clients : manifest'[d].version = manifest[d].version
               /\ \A d \in Clients \ {term[p].client} : manifest'[d] = manifest[d]
               /\ Proves(term[p].args, term[p].client) =>
                    cloud[term[p].client].left \cap Managed = {}
    <2>1. OffboardOk(p)
      BY <1>1, <1>2, <1>5, Alone
    <2>2. manifest' = [manifest EXCEPT ![term[p].client].offboarded = TRUE]
      BY <1>1, <1>3, <2>1 DEF OffboardOk
    <2>3. /\ \A d \in Clients : manifest'[d].version = manifest[d].version
          /\ \A d \in Clients \ {term[p].client} : manifest'[d] = manifest[d]
      BY <1>2, <2>2 DEF IInv, TypeOK, Manifests
    <2>4. Proves(term[p].args, term[p].client) =>
            cloud[term[p].client].left \cap Managed = {}
      BY <1>1, <2>1 DEF OffboardOk
    <2>5. QED
      BY <2>3, <2>4
  <1>6. PinIsVerified'
    BY <1>5 DEF WriteMark, IInv, PinIsVerified
  <1>7. MarkIsBacked'
    <2>0. cloud' = cloud
      BY DEF WriteMark
    <2> SUFFICES ASSUME orderly, NEW c \in Clients, manifest'[c].offboarded, c \notin unproved'
                 PROVE  cloud[c].left \cap Managed = {}
      BY <1>3, <2>0 DEF MarkIsBacked
    <2>1. CASE c = term[p].client
      BY <1>3, <1>5, <2>1
    <2>2. CASE c # term[p].client
      <3>1. manifest[c].offboarded /\ c \notin unproved
        BY <1>3, <1>5, <2>2
      <3>2. QED
        BY <3>1 DEF IInv, MarkIsBacked
    <2>3. QED
      BY <2>1, <2>2
  <1>8. TermOk(p)' /\ term'[p].cmd = "none"
    BY <1>1, IdleOk
  <1>9. QED
    BY <1>1, <1>3, <1>4, <1>6, <1>7, <1>8, Alone, Preserved

\* A write of an instance takes nothing from the archives.
LEMMA ClientWritesIInv ==
  ASSUME IInv, NEW c \in Clients, ClientWrites(c)
  PROVE  IInv'
  <1>1. /\ data \in [Clients -> 1 .. MaxWrites] /\ data[c] < MaxWrites
        /\ data' = [data EXCEPT ![c] = data[c] + 1]
    BY DEF ClientWrites, IInv, TypeOK
  <1>2. /\ \A n \in 1 .. MaxWrites : n < MaxWrites => n + 1 \in 1 .. MaxWrites
        /\ \A b \in 0 .. MaxWrites : \A n \in 1 .. MaxWrites : b <= n => b <= n + 1
    BY BoundsAssumption
  <1>3. PICK n \in 1 .. MaxWrites, m \in 1 .. MaxWrites :
          n = data[c] /\ m = data[c] + 1 /\ \A b \in 0 .. MaxWrites : b <= n => b <= m
    BY <1>1, <1>2
  <1>4. data' \in [Clients -> 1 .. MaxWrites]
    BY <1>1, <1>3
  <1>5. TypeOK'
    BY <1>4 DEF ClientWrites, IInv, TypeOK
  <1>6. /\ term' = term /\ orderly' = orderly /\ manifest' = manifest /\ cloud' = cloud
        /\ backend' = backend /\ archive' = archive /\ served' = served
        /\ unproved' = unproved
    BY DEF ClientWrites
  <1>7. (TermInv /\ OneAtATime /\ WalkInv /\ PinIsVerified /\ WalkLeavesGoodBehind /\ MarkIsBacked)'
    <2>1. (TermInv /\ OneAtATime)'
      BY <1>6 DEF IInv, TermInv, TermOk, OneAtATime
    <2>2. WalkInv'
      BY <1>6 DEF IInv, WalkInv, WalkOk
    <2>3. (PinIsVerified /\ MarkIsBacked)'
      BY <1>6 DEF IInv, PinIsVerified, MarkIsBacked
    <2>4. WalkLeavesGoodBehind'
      BY <1>6 DEF IInv, WalkLeavesGoodBehind, GoodBehind
    <2>5. QED
      BY <2>1, <2>2, <2>3, <2>4
  <1>8. OffboardInv'
    <2> SUFFICES ASSUME orderly, NEW p \in Terminals, term[p].cmd = "offboard"
                 PROVE  OffboardOk(p)'
      BY <1>6 DEF OffboardInv
    <2>1. OffboardOk(p) /\ term[p].client \in Clients /\ term[p].base \in 0 .. MaxWrites
      BY DEF IInv, OffboardInv, TermInv, TermOk, TypeOK, Commands
    <2>2. term[p].base <= data'[term[p].client]
      <3>1. term[p].base <= data[term[p].client]
        BY <2>1 DEF OffboardOk
      <3>2. CASE term[p].client = c
        BY <1>1, <1>3, <2>1, <3>1, <3>2
      <3>3. CASE term[p].client # c
        BY <1>1, <2>1, <3>1, <3>3
      <3>4. QED
        BY <3>2, <3>3
    <2>3. QED
      BY <1>6, <2>1, <2>2 DEF OffboardOk
  <1>9. QED
    BY <1>5, <1>7, <1>8 DEF IInv

\* Cleaning by hand takes nothing that terraform manages.
LEMMA CleansByHandIInv ==
  ASSUME IInv, NEW c \in Clients, CleansByHand(c)
  PROVE  IInv'
  <1>1. /\ term' = term /\ orderly' = orderly /\ manifest' = manifest /\ data' = data
        /\ backend' = backend /\ archive' = archive /\ served' = served
        /\ unproved' = unproved
    BY DEF CleansByHand
  <1>2. /\ cloud' \in [Clients -> [live : Versions \cup {"nothing"}, ready : BOOLEAN,
                                   left : SUBSET Kinds]]
        /\ \A d \in Clients : /\ cloud'[d].left \subseteq cloud[d].left
                             /\ cloud'[d].live = cloud[d].live
                             /\ cloud'[d].ready = cloud[d].ready
    BY DEF CleansByHand, IInv, TypeOK
  <1>3. TypeOK'
    BY <1>2 DEF CleansByHand, IInv, TypeOK
  <1>4. (TermInv /\ OneAtATime /\ PinIsVerified)'
    BY <1>1 DEF IInv, TermInv, TermOk, OneAtATime, PinIsVerified
  <1>5. MarkIsBacked'
    BY <1>1, <1>2 DEF IInv, MarkIsBacked
  <1>6. \A p \in Terminals : /\ term[p].cmd # "none" => term[p].client \in Clients
                            /\ term[p].done \subseteq Clients
    BY DEF IInv, TypeOK, Commands, TermInv, TermOk
  <1>7. WalkInv'
    <2> SUFFICES ASSUME orderly, NEW p \in Terminals, term[p].cmd = "upgrade"
                 PROVE  WalkOk(p)'
      BY <1>1 DEF WalkInv
    <2>1. WalkOk(p) /\ term[p].client \in Clients
      BY <1>6 DEF IInv, WalkInv
    <2>2. /\ cloud'[term[p].client].live = cloud[term[p].client].live
          /\ cloud'[term[p].client].ready = cloud[term[p].client].ready
      BY <1>2, <2>1
    <2>3. QED
      BY <1>1, <2>1, <2>2 DEF WalkOk
  <1>8. WalkLeavesGoodBehind'
    BY <1>1, <1>2, <1>6 DEF IInv, WalkLeavesGoodBehind, GoodBehind
  <1>9. OffboardInv'
    <2> SUFFICES ASSUME orderly, NEW p \in Terminals, term[p].cmd = "offboard"
                 PROVE  OffboardOk(p)'
      BY <1>1 DEF OffboardInv
    <2>1. OffboardOk(p) /\ term[p].client \in Clients
      BY <1>6 DEF IInv, OffboardInv
    <2>2. cloud'[term[p].client].left \subseteq cloud[term[p].client].left
      BY <1>2, <2>1
    <2>3. QED
      BY <1>1, <2>1, <2>2 DEF OffboardOk
  <1>10. QED
    BY <1>3, <1>4, <1>5, <1>7, <1>8, <1>9 DEF IInv

\* A step that changes nothing.
LEMMA StutterIInv ==
  ASSUME IInv, UNCHANGED vars
  PROVE  IInv'
  <1>1. TypeOK'
    BY DEF vars, IInv, TypeOK
  <1>2. /\ term' = term /\ orderly' = orderly /\ manifest' = manifest /\ cloud' = cloud
        /\ backend' = backend /\ archive' = archive /\ served' = served
        /\ unproved' = unproved /\ data' = data
    BY DEF vars
  <1>3. (TermInv /\ OneAtATime)'
    BY <1>2 DEF IInv, TermInv, TermOk, OneAtATime
  <1>4. WalkInv'
    BY <1>2 DEF IInv, WalkInv, WalkOk
  <1>5. OffboardInv'
    BY <1>2 DEF IInv, OffboardInv, OffboardOk
  <1>6. (PinIsVerified /\ MarkIsBacked)'
    BY <1>2 DEF IInv, PinIsVerified, MarkIsBacked
  <1>7. WalkLeavesGoodBehind'
    BY <1>2 DEF IInv, WalkLeavesGoodBehind, GoodBehind
  <1>8. QED
    BY <1>1, <1>3, <1>4, <1>5, <1>6, <1>7 DEF IInv

\* Every step keeps the invariant.
LEMMA NextIInv == IInv /\ [Next]_vars => IInv'
  <1> SUFFICES ASSUME IInv, [Next]_vars PROVE IInv'
    OBVIOUS
  <1>1. ASSUME NEW p \in Terminals, Upgrading(p) PROVE IInv'
    BY <1>1, StartUpgradeIInv, TfInitIInv, TfPlanIInv, TfApplyIInv, TfOutputIInv,
       VerifyIInv, ReadForPinIInv, WritePinIInv, SyncTfvarsIInv DEF Upgrading
  <1>2. ASSUME NEW p \in Terminals, Offboarding(p) PROVE IInv'
    BY <1>2, StartOffboardIInv, ExportIInv, DeliverIInv, InitDestroyIInv, TfDestroyIInv,
       ProbeIInv, StateEmptyIInv, ReadForMarkIInv, WriteMarkIInv DEF Offboarding
  <1>3. QED
    BY <1>1, <1>2, StopsIInv, ClientWritesIInv, CleansByHandIInv, StutterIInv DEF Next

\* The invariant holds of every reachable state: every step of a command run alone
\* knows what its client's registry entry, instance and archives look like.
THEOREM FleetInvariant == Spec => []IInv
  BY InitIInv, NextIInv, PTL DEF Spec

\* The registry never claims a version the client was not seen to serve,
\* wherever the upgrades and offboardings that wrote it ended.
THEOREM PinIsVerifiedCorrect == Spec => []PinIsVerified
  <1>1. IInv => PinIsVerified
    BY DEF IInv
  <1>2. QED
    BY <1>1, FleetInvariant, PTL

\* Behind the client a walk is at, every client is live, ready and recorded at
\* the walk's version.
THEOREM WalkLeavesGoodBehindCorrect == Spec => []WalkLeavesGoodBehind
  <1>1. IInv => WalkLeavesGoodBehind
    BY DEF IInv
  <1>2. QED
    BY <1>1, FleetInvariant, PTL

\* A client marked by a command that verified stays free of what terraform
\* managed for it.
THEOREM MarkIsBackedCorrect == Spec => []MarkIsBacked
  <1>1. IInv => MarkIsBacked
    BY DEF IInv
  <1>2. QED
    BY <1>1, FleetInvariant, PTL

\* A step that takes a database away is the destroy of the command at that client.
LEMMA OnlyDestroyRemoves ==
  ASSUME IInv, [Next]_vars, orderly, NEW c \in Clients,
         "probed" \in cloud[c].left, "probed" \notin cloud'[c].left
  PROVE  \E p \in Terminals :
           /\ term[p].pc = "destroy" /\ term[p].client = c
           /\ term[p].args.skip_export \/ archive[c] >= term[p].base
  <1>1. cloud' # cloud
    OBVIOUS
  <1>2. ASSUME NEW p \in Terminals, tf_apply(p) PROVE FALSE
    <2>1. PICK ready \in BOOLEAN :
            cloud' = Applied(term[p].client, term[p].held, term[p].version, ready)
      BY <1>2 DEF tf_apply
    <2>2. term[p].pc = "apply" /\ term[p].cmd = "upgrade"
      BY <1>2, Alone DEF tf_apply, Step, TermOk, WalkSteps
    <2>3. term[p].held = term[p].client
      BY <2>2, Alone DEF WalkOk
    <2>4. cloud'[c].left = cloud[c].left \/ cloud'[c].left = cloud[c].left \cup Managed
      BY <2>1, <2>3 DEF Applied
    <2>5. QED
      BY <2>4
  <1>3. ASSUME NEW d \in Clients, CleansByHand(d) PROVE FALSE
    <2>1. cloud'[c].left = cloud[c].left \/ cloud'[c].left = cloud[c].left \ {"outside"}
      BY <1>3 DEF CleansByHand, IInv, TypeOK
    <2>2. QED
      BY <2>1
  <1>4. PICK p \in Terminals : tf_destroy(p)
    BY ZenonT(60), <1>1, <1>2, <1>3
       DEF Next, vars, Upgrading, Offboarding, Stops, StartUpgrade, StartOffboard, Begin,
           tf_init, tf_plan, tf_output, verify, ReadForPin, WritePin, SyncTfvars, Export,
           deliver, InitDestroy, Probe, verify_tf_state_empty, ReadForMark, WriteMark,
           ClientWrites
  <1>5. term[p].pc = "destroy" /\ backend \in Clients
    BY <1>4 DEF tf_destroy, Step
  <1>6. /\ OffboardOk(p) /\ term[p] \in Commands
    BY <1>5, Alone DEF TermOk, OffboardSteps
  <1>7. backend = c
    <2>1. \A d \in Clients \ {backend} : cloud'[d] = cloud[d]
      BY <1>4, <1>5 DEF tf_destroy, IInv, TypeOK
    <2>2. QED
      BY <2>1
  <1>8. /\ term[p].client = c
        /\ term[p].args.skip_export \/ term[p].base <= archive[c]
    BY <1>5, <1>6, <1>7 DEF OffboardOk
  <1>9. archive[c] \in 0 .. MaxWrites /\ term[p].base \in 0 .. MaxWrites
    BY <1>6 DEF Commands, IInv, TypeOK
  <1>10. QED
    BY <1>5, <1>8, <1>9, BoundsAssumption

\* A database only goes away by the destroy of a command that names its client,
\* after an archive with everything written before that command was delivered.
THEOREM DestroyIsDeliveredCorrect == Spec => DestroyIsDelivered
  <1>1. IInv /\ [Next]_vars =>
          [\A c \in Clients :
             orderly /\ "probed" \in cloud[c].left /\ "probed" \notin cloud'[c].left =>
               \E p \in Terminals :
                 /\ term[p].pc = "destroy"
                 /\ term[p].client = c
                 /\ term[p].args.skip_export \/ archive[c] >= term[p].base]_vars
    BY OnlyDestroyRemoves
  <1>2. QED
    BY <1>1, FleetInvariant, PTL DEF Spec, DestroyIsDelivered
=============================================================================
