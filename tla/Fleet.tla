-------------------------------- MODULE Fleet --------------------------------
(***************************************************************************)
(* The operator's two fleet drivers: scripts/fleet_upgrade.py, which walks *)
(* the registry and upgrades each client, and scripts/offboard_client.py,  *)
(* which exports a client's data, destroys its instance and marks its      *)
(* registry entry.                                                         *)
(*                                                                         *)
(* Both are run by hand from a checkout.  Everything they share is a file  *)
(* or a cloud resource and nothing is locked: the registry is read, edited *)
(* and written back whole, the terraform working directory points at the   *)
(* state of whichever client was initialised last, and the clients to      *)
(* upgrade are chosen once, at the start of the walk.  The module lets     *)
(* several terminals run commands at once and lets any command end between *)
(* any two of its steps.                                                   *)
(***************************************************************************)
EXTENDS Naturals

CONSTANTS
    Clients,      \* slugs
    Position,     \* the place of each in the registry
    Hosted,       \* the clients whose registry posture is "hosted"
    Releases,     \* release tags vX.Y.Z
    Latest,       \* the registry's and the tfvars' "latest"
    NoClient,
    Terminals,    \* shells a driver can be run from
    FirstTfvars,  \* what the clients' tfvars may say at the start
    OffboardArgs, \* the flag combinations offboard_client.py is called with
    MaxCommands,  \* bound on the number of commands run
    MaxWrites,    \* bound on the writes of each client's instance
    Regimes       \* whether the operator runs one command at a time

\* The flags of offboard_client.py that change what it does; skip_verify is
\* --skip-secrets-verify, extra_projects is --secret-project.
Args == [mode : {"auto", "hosted", "client-infra"}, export_only : BOOLEAN,
         skip_export : BOOLEAN, skip_destroy : BOOLEAN, mark_only : BOOLEAN,
         skip_verify : BOOLEAN, force : BOOLEAN, extra_projects : BOOLEAN]

\* The combinations that parse_args refuses.
parse_args(a) ==
    /\ ~(a.export_only /\ a.skip_export)
    /\ ~(a.mark_only /\ (a.export_only \/ a.skip_export))

ASSUME RegistryAssumption ==
    /\ Position \in [Clients -> Nat]
    /\ \A c, d \in Clients : Position[c] = Position[d] => c = d
    /\ Hosted \subseteq Clients
    /\ NoClient \notin Clients
    /\ Latest \notin Releases

ASSUME TfvarsAssumption ==
    FirstTfvars \subseteq [Clients -> Releases \cup {Latest, "no line", "no file"}]

ASSUME ArgsAssumption == \A a \in OffboardArgs : a \in Args /\ parse_args(a)

ASSUME BoundsAssumption ==
    /\ MaxCommands \in Nat
    /\ MaxWrites \in Nat \ {0}
    /\ Regimes \subseteq BOOLEAN

Versions == Releases \cup {Latest}

\* What an instance leaves in the cloud: what the cleanup probes list by name
\* (services, database, scheduler job, accounts, secrets), what only the
\* terraform state knows of, and secrets kept in another project.
Managed == {"probed", "unprobed"}
Kinds == Managed \cup {"outside"}

VARIABLES
    manifest,  \* fleet.yml: each client's recorded version and offboarded mark
    tfvars,    \* image_version in each client's tfvars, "no line" or "no file"
    cloud,     \* each client's live image, whether it is ready, what exists
    backend,   \* the client whose state infra/.terraform points at
    data,      \* the number of the last write in each client's database
    archive,   \* the last write the archive delivered last holds; 0: none
    term,      \* the command each terminal is running
    started,   \* commands run so far
    served,    \* history: versions each client was verified to serve
    unproved,  \* history: clients marked by a command that proved nothing
    orderly    \* no command is started while another is running

vars == <<manifest, tfvars, cloud, backend, data, archive, term, started,
          served, unproved, orderly>>

NoArgs == [mode |-> "auto", export_only |-> FALSE, skip_export |-> FALSE,
           skip_destroy |-> FALSE, mark_only |-> FALSE, skip_verify |-> FALSE,
           force |-> FALSE, extra_projects |-> FALSE]

NoPlan == [live |-> "nothing", left |-> {}]
NoText == [c \in {} |-> Latest]

\* A terminal with nothing running; the fields are a command's local variables.
Idle == [pc |-> "idle", cmd |-> "none", version |-> Latest, args |-> NoArgs,
         client |-> NoClient, todo |-> {}, done |-> {}, latest |-> {},
         held |-> NoClient, plan |-> NoPlan, text |-> NoText, dump |-> 0, base |-> 0]

\* Where a walk is with a client, and where an offboarding is.
WalkSteps == {"init", "plan", "apply", "output", "verify", "pin", "write pin", "sync tfvars"}
OffboardSteps == {"export", "deliver", "init destroy", "destroy", "probe", "state list",
                  "mark", "write mark"}

Tfvars == [Clients -> Versions \cup {"no line", "no file"}]
Manifests == [Clients -> [version : Versions, offboarded : BOOLEAN]]

Commands ==
    [pc : {"idle"} \cup WalkSteps \cup OffboardSteps,
     cmd : {"none", "preview", "upgrade", "offboard"},
     version : Versions, args : Args, client : Clients \cup {NoClient},
     todo : SUBSET Clients, done : SUBSET Clients, latest : SUBSET Clients,
     held : Clients \cup {NoClient},
     plan : [live : Versions \cup {"nothing"}, left : SUBSET Managed],
     text : Manifests \cup {NoText}, dump : 0 .. MaxWrites, base : 0 .. MaxWrites]

TypeOK ==
    /\ manifest \in Manifests
    /\ tfvars \in Tfvars
    /\ cloud \in [Clients -> [live : Versions \cup {"nothing"}, ready : BOOLEAN,
                              left : SUBSET Kinds]]
    /\ backend \in Clients \cup {NoClient}
    /\ data \in [Clients -> 1 .. MaxWrites]
    /\ archive \in [Clients -> 0 .. MaxWrites]
    /\ term \in [Terminals -> Commands]
    /\ started \in 0 .. MaxCommands
    /\ served \in [Clients -> SUBSET Versions]
    /\ unproved \subseteq Clients
    /\ orderly \in BOOLEAN

Init ==
    /\ manifest = [c \in Clients |-> [version |-> Latest, offboarded |-> FALSE]]
    /\ tfvars \in FirstTfvars
    /\ cloud = [c \in Clients |-> [live |-> Latest, ready |-> TRUE, left |-> Kinds]]
    /\ backend = NoClient
    /\ data = [c \in Clients |-> 1]
    /\ archive = [c \in Clients |-> 0]
    /\ term = [p \in Terminals |-> Idle]
    /\ started = 0
    /\ served = [c \in Clients |-> {Latest}]
    /\ unproved = {}
    /\ orderly \in Regimes

-----------------------------------------------------------------------------
(***************************************************************************)
(* Commands.                                                               *)
(***************************************************************************)
Step(p, from, to) ==
    /\ term[p].pc = from
    /\ term' = [term EXCEPT ![p] = IF to = "idle" THEN Idle ELSE [@ EXCEPT !.pc = to]]

Begin(p, command) ==
    /\ term[p].pc = "idle"
    /\ orderly => \A q \in Terminals : term[q].pc = "idle"
    /\ started < MaxCommands
    /\ started' = started + 1
    /\ term' = [term EXCEPT ![p] = command]
    /\ UNCHANGED <<manifest, tfvars, cloud, backend, data, archive, served, unproved,
                   orderly>>

\* A command ends where it is: a subprocess fails, a probe or the operator says
\* no, the secret scan finds something, the process is killed.  run_walk turns
\* the first error into a report and looks at no later client.
Stops(p) ==
    /\ term[p].pc # "idle"
    /\ term' = [term EXCEPT ![p] = Idle]
    /\ UNCHANGED <<manifest, tfvars, cloud, backend, data, archive, started,
                   served, unproved, orderly>>

-----------------------------------------------------------------------------
(***************************************************************************)
(* fleet_upgrade.py                                                        *)
(***************************************************************************)
resolve_targets(only) ==
    {c \in Clients : only \in {NoClient, c} /\ ~manifest[c].offboarded}

\* The walk is in registry order.
First(c, targets) == \A d \in targets : Position[c] <= Position[d]

\* main: the clients are resolved once; a client without tfvars ends the
\* command before anything is touched.  A preview is --dry-run.
StartUpgrade(p, version, only, dry_run) ==
    LET targets == resolve_targets(only) IN
    /\ \A c \in targets : tfvars[c] # "no file"
    /\ \E c \in targets :
         /\ First(c, targets)
         /\ Begin(p, [Idle EXCEPT !.pc = "init", !.version = version,
                                  !.cmd = IF dry_run THEN "preview" ELSE "upgrade",
                                  !.client = c, !.todo = targets \ {c},
                                  !.latest = {d \in targets : tfvars[d] = Latest}])

tf_init(p) ==
    /\ Step(p, "init", "plan")
    /\ backend' = term[p].client
    /\ UNCHANGED <<manifest, tfvars, cloud, data, archive, started, served,
                   unproved, orderly>>

NextTarget(p) ==
    \/ term[p].todo = {} /\ term' = [term EXCEPT ![p] = Idle]
    \/ \E c \in term[p].todo :
         /\ First(c, term[p].todo)
         /\ term' = [term EXCEPT ![p].pc = "init", ![p].client = c, ![p].todo = @ \ {c},
                                 ![p].done = @ \cup {term[p].client}]

\* What terraform's state of a client lists.
State(c) == [live |-> cloud[c].live, left |-> cloud[c].left \cap Managed]

\* terraform plan reads the state that .terraform points at and keeps its
\* whereabouts in the plan file; a preview goes on to the next client.
tf_plan(p) ==
    /\ term[p].pc = "plan"
    /\ backend \in Clients
    /\ IF term[p].cmd = "preview" THEN NextTarget(p)
       ELSE term' = [term EXCEPT ![p].pc = "apply", ![p].held = backend,
                                 ![p].plan = State(backend)]
    /\ UNCHANGED <<manifest, tfvars, cloud, backend, data, archive, started,
                   served, unproved, orderly>>

\* What terraform does with the client's variables over the state of client b:
\* the client's instance is brought to the version, and what the state lists
\* of another client is replaced.
Applied(c, b, version, ready) ==
    [d \in Clients |->
       IF d = c THEN [live |-> version, ready |-> ready, left |-> cloud[c].left \cup Managed]
       ELSE IF d = b THEN [live |-> "nothing", ready |-> FALSE, left |-> cloud[d].left \ Managed]
       ELSE cloud[d]]

\* Mutant: the version is recorded as soon as terraform is done.
ApplyUnverified(p) ==
    /\ Step(p, "apply", "pin")
    /\ term[p].plan = State(term[p].held)
    /\ \E ready \in BOOLEAN :
         cloud' = Applied(term[p].client, term[p].held, term[p].version, ready)
    /\ UNCHANGED <<manifest, tfvars, backend, data, archive, started, served,
                   unproved, orderly>>

\* The operator confirms and the plan is applied, unless its state has changed
\* since.  The new revision may turn out not to serve; terraform may fail after
\* the fact.
tf_apply(p) ==
    /\ \/ Step(p, "apply", "output")
       \/ Step(p, "apply", "idle")
    /\ term[p].plan = State(term[p].held)
    /\ \E ready \in BOOLEAN :
         cloud' = Applied(term[p].client, term[p].held, term[p].version, ready)
    /\ UNCHANGED <<manifest, tfvars, backend, data, archive, started, served,
                   unproved, orderly>>

\* terraform output api_url: read from the state that .terraform points at now.
tf_output(p) ==
    /\ term[p].pc = "output"
    /\ backend \in Clients
    /\ cloud[backend].live # "nothing"
    /\ term' = [term EXCEPT ![p].pc = "verify", ![p].held = backend]
    /\ UNCHANGED <<manifest, tfvars, cloud, backend, data, archive, started,
                   served, unproved, orderly>>

\* Mutant: any answer counts.
VerifyAnyAnswer(p) ==
    LET c == term[p].held IN
    /\ Step(p, "verify", "pin")
    /\ cloud[c].live # "nothing"
    /\ served' = [served EXCEPT ![c] = @ \cup {cloud[c].live}]
    /\ UNCHANGED <<manifest, tfvars, cloud, backend, data, archive, started,
                   unproved, orderly>>

\* /readyz and the smoke request against the url.
verify(p) ==
    LET c == term[p].held IN
    /\ Step(p, "verify", "pin")
    /\ cloud[c].live # "nothing" /\ cloud[c].ready
    /\ served' = [served EXCEPT ![c] = @ \cup {cloud[c].live}]
    /\ UNCHANGED <<manifest, tfvars, cloud, backend, data, archive, started,
                   unproved, orderly>>

\* _write_manifest_pin: read the registry and edit one entry of the text ...
ReadForPin(p) ==
    /\ term[p].pc = "pin"
    /\ term' = [term EXCEPT ![p].pc = "write pin",
                            ![p].text = [manifest EXCEPT ![term[p].client].version = term[p].version]]
    /\ UNCHANGED <<manifest, tfvars, cloud, backend, data, archive, started,
                   served, unproved, orderly>>

\* ... and write the text back.
WritePin(p) ==
    /\ Step(p, "write pin", "sync tfvars")
    /\ manifest' = term[p].text
    /\ UNCHANGED <<tfvars, cloud, backend, data, archive, started, served,
                   unproved, orderly>>

\* The tfvars follow unless the client was tracking latest when the walk began.
\* Without an image_version line this raises, after the registry was written.
SyncTfvars(p) ==
    LET c == term[p].client IN
    /\ term[p].pc = "sync tfvars"
    /\ IF c \in term[p].latest THEN UNCHANGED tfvars
       ELSE /\ tfvars[c] # "no line"
            /\ tfvars' = [tfvars EXCEPT ![c] = term[p].version]
    /\ NextTarget(p)
    /\ UNCHANGED <<manifest, cloud, backend, data, archive, started, served,
                   unproved, orderly>>

-----------------------------------------------------------------------------
(***************************************************************************)
(* offboard_client.py                                                      *)
(***************************************************************************)
posture(c) == IF c \in Hosted THEN "hosted" ELSE "client-infra"

_effective_mode(args, c) == IF args.mode = "auto" THEN posture(c) ELSE args.mode

\* Where run goes once the export is delivered or skipped.
AfterExport(args, c) ==
    CASE args.export_only -> "idle"
      [] ~args.export_only /\ _effective_mode(args, c) = "client-infra" -> "mark"
      [] ~args.export_only /\ _effective_mode(args, c) = "hosted" ->
           CASE ~args.skip_destroy -> "init destroy"
             [] args.skip_destroy /\ ~args.skip_verify -> "probe"
             [] args.skip_destroy /\ args.skip_verify -> "mark"

\* run: resolve, refuse a client already marked unless forced, and begin.
StartOffboard(p, c, args) ==
    /\ tfvars[c] # "no file" \/ args.mark_only
    /\ ~manifest[c].offboarded \/ args.force
    /\ Begin(p, [Idle EXCEPT !.cmd = "offboard", !.args = args, !.base = data[c],
                             !.client = c,
                             !.pc = IF args.mark_only THEN "mark"
                                    ELSE IF args.skip_export THEN AfterExport(args, c)
                                    ELSE "export"])

\* Mutant: the archive is left for later.
ExportUndelivered(p) ==
    LET c == term[p].client
        next == AfterExport(term[p].args, c)
    IN /\ term[p].pc = "export"
       /\ "probed" \in cloud[c].left
       /\ term' = [term EXCEPT ![p] = IF next = "idle" THEN Idle
                                      ELSE [@ EXCEPT !.pc = next, !.dump = data[c]]]
       /\ UNCHANGED <<manifest, tfvars, cloud, backend, data, archive, started,
                      served, unproved, orderly>>

\* build_export_tree, pack_archive and a clean assert_archive_clean.
Export(p) ==
    LET c == term[p].client IN
    /\ term[p].pc = "export"
    /\ "probed" \in cloud[c].left
    /\ term' = [term EXCEPT ![p].pc = "deliver", ![p].dump = data[c]]
    /\ UNCHANGED <<manifest, tfvars, cloud, backend, data, archive, started,
                   served, unproved, orderly>>

\* Below a directory or a bucket an archive has a name of its own, with the time in
\* it; where --dest names an archive file, a delivery replaces the one before.  So
\* only the archive delivered last is sure to be there.
deliver(p) ==
    LET c == term[p].client IN
    /\ Step(p, "deliver", AfterExport(term[p].args, c))
    /\ archive' = [archive EXCEPT ![c] = term[p].dump]
    /\ UNCHANGED <<manifest, tfvars, cloud, backend, data, started, served,
                   unproved, orderly>>

\* The operator confirms, and tf_destroy points terraform at the client's state.
InitDestroy(p) ==
    /\ Step(p, "init destroy", "destroy")
    /\ backend' = term[p].client
    /\ UNCHANGED <<manifest, tfvars, cloud, data, archive, started, served,
                   unproved, orderly>>

\* terraform destroy removes what the state lists: all of it, or some of it
\* before it fails.
tf_destroy(p) ==
    /\ backend \in Clients
    /\ \E gone \in SUBSET Managed :
         /\ \/ gone = Managed /\ Step(p, "destroy", IF term[p].args.skip_verify THEN "mark"
                                                    ELSE "probe")
            \/ Step(p, "destroy", "idle")
         /\ cloud' = [cloud EXCEPT ![backend].left = @ \ gone,
                        ![backend].live = IF "probed" \in gone THEN "nothing" ELSE @,
                        ![backend].ready = @ /\ "probed" \notin gone]
    /\ UNCHANGED <<manifest, tfvars, backend, data, archive, started, served,
                   unproved, orderly>>

\* verify_hosted_cleanup: the probes by name, in the client's project and in
\* those given, and then the init that precedes the look at the state.
Probe(p) ==
    LET c == term[p].client IN
    /\ Step(p, "probe", "state list")
    /\ "probed" \notin cloud[c].left
    /\ ~(term[p].args.extra_projects /\ "outside" \in cloud[c].left)
    /\ backend' = c
    /\ UNCHANGED <<manifest, tfvars, cloud, data, archive, started, served,
                   unproved, orderly>>

\* Mutant: what the state lists is printed and not looked at.
StateListIgnored(p) ==
    /\ Step(p, "state list", "mark")
    /\ UNCHANGED <<manifest, tfvars, cloud, backend, data, archive, started,
                   served, unproved, orderly>>

\* The state of the client must list nothing.
verify_tf_state_empty(p) ==
    /\ Step(p, "state list", "mark")
    /\ cloud[backend].left \cap Managed = {}
    /\ UNCHANGED <<manifest, tfvars, cloud, backend, data, archive, started,
                   served, unproved, orderly>>

\* The operator confirms; write_manifest_offboarded reads and edits the text ...
ReadForMark(p) ==
    /\ term[p].pc = "mark"
    /\ term' = [term EXCEPT ![p].pc = "write mark",
                            ![p].text = [manifest EXCEPT ![term[p].client].offboarded = TRUE]]
    /\ UNCHANGED <<manifest, tfvars, cloud, backend, data, archive, started,
                   served, unproved, orderly>>

\* A command that looked at the cloud before it marked the entry.
Proves(args, c) ==
    ~args.mark_only /\ ~args.skip_verify /\ _effective_mode(args, c) = "hosted"

\* ... and writes it back.
WriteMark(p) ==
    LET c == term[p].client IN
    /\ Step(p, "write mark", "idle")
    /\ manifest' = term[p].text
    /\ unproved' = IF Proves(term[p].args, c) THEN unproved \ {c} ELSE unproved \cup {c}
    /\ UNCHANGED <<tfvars, cloud, backend, data, archive, started, served, orderly>>

-----------------------------------------------------------------------------
\* A client's instance commits a write, whatever the operator is doing.
ClientWrites(c) ==
    /\ cloud[c].live # "nothing"
    /\ data[c] < MaxWrites
    /\ data' = [data EXCEPT ![c] = @ + 1]
    /\ UNCHANGED <<manifest, tfvars, cloud, backend, archive, term, started,
                   served, unproved, orderly>>

\* The operator removes secrets kept in another project, as the error asks.
CleansByHand(c) ==
    /\ "outside" \in cloud[c].left
    /\ cloud' = [cloud EXCEPT ![c].left = @ \ {"outside"}]
    /\ UNCHANGED <<manifest, tfvars, backend, data, archive, term, started,
                   served, unproved, orderly>>

Upgrading(p) ==
    \/ \E version \in Releases, only \in Clients \cup {NoClient}, dry_run \in BOOLEAN :
         StartUpgrade(p, version, only, dry_run)
    \/ tf_init(p)
    \/ tf_plan(p)
    \/ tf_apply(p)
    \/ tf_output(p)
    \/ verify(p)
    \/ ReadForPin(p)
    \/ WritePin(p)
    \/ SyncTfvars(p)

Offboarding(p) ==
    \/ \E c \in Clients, args \in OffboardArgs : StartOffboard(p, c, args)
    \/ Export(p)
    \/ deliver(p)
    \/ InitDestroy(p)
    \/ tf_destroy(p)
    \/ Probe(p)
    \/ verify_tf_state_empty(p)
    \/ ReadForMark(p)
    \/ WriteMark(p)

Next ==
    \/ \E p \in Terminals : Upgrading(p) \/ Offboarding(p) \/ Stops(p)
    \/ \E c \in Clients : ClientWrites(c) \/ CleansByHand(c)

Spec == Init /\ [][Next]_vars

-----------------------------------------------------------------------------
(***************************************************************************)
(* Properties, of commands run one after the other, each ending anywhere.  *)
(***************************************************************************)
\* fleet_upgrade.py:10-14: the registry never claims a version that the client
\* was not seen to serve; a walk that ends early leaves the old pin.
PinIsVerified ==
    orderly => \A c \in Clients : manifest[c].version \in served[c]

\* The clients a walk is done with are live, ready and recorded at its version.
GoodBehind(p) ==
    \A c \in term[p].done :
        /\ cloud[c].live = term[p].version /\ cloud[c].ready
        /\ manifest[c].version = term[p].version

\* fleet_upgrade.py:16: behind the client a walk is at, every client is live and
\* ready at the walk's version and recorded at it: a bad release reaches one
\* client of a walk at most.
WalkLeavesGoodBehind ==
    orderly => \A p \in Terminals : term[p].cmd = "upgrade" => GoodBehind(p)

\* docs/OFFBOARDING.md:17: a hosted client recorded as offboarded by a command
\* that verified has nothing left that terraform managed, and keeps it so: no
\* later walk brings the instance back.
MarkIsBacked ==
    orderly => \A c \in Clients :
        manifest[c].offboarded /\ c \notin unproved => cloud[c].left \cap Managed = {}

\* docs/OFFBOARDING.md:34: a database only goes away by the destroy of a command
\* that names its client, and only after an archive was delivered that holds
\* everything written before that command (unless it says --skip-export).
DestroyIsDelivered ==
    [][\A c \in Clients :
         orderly /\ "probed" \in cloud[c].left /\ "probed" \notin cloud'[c].left =>
            \E p \in Terminals :
                /\ term[p].pc = "destroy"
                /\ term[p].client = c
                /\ term[p].args.skip_export \/ archive[c] >= term[p].base]_vars

-----------------------------------------------------------------------------
(***************************************************************************)
(* The inductive invariant behind the theorems of FleetProofs.             *)
(***************************************************************************)
\* What a terminal's step says of its command.
TermOk(p) ==
    /\ term[p].pc = "idle" <=> term[p].cmd = "none"
    /\ term[p].pc # "idle" => term[p].client \in Clients
    /\ term[p].pc \in {"init", "plan"} => term[p].cmd \in {"preview", "upgrade"}
    /\ term[p].pc \in WalkSteps \ {"init", "plan"} => term[p].cmd = "upgrade"
    /\ term[p].pc \in OffboardSteps => term[p].cmd = "offboard"
    /\ term[p].pc \in {"apply", "verify"} => term[p].held \in Clients
    /\ term[p].pc \in {"write pin", "write mark"} => term[p].text \in Manifests
    /\ term[p].client \notin term[p].todo \cup term[p].done
    /\ term[p].todo \cap term[p].done = {}

TermInv == \A p \in Terminals : TermOk(p)

OneAtATime ==
    orderly => \A p, q \in Terminals :
        term[p].pc # "idle" /\ term[q].pc # "idle" => p = q

\* A walk run alone: terraform looks at the client the walk is at, what was
\* verified is that client at that version, and no client of it is marked.
WalkOk(p) ==
    LET t == term[p]
        c == term[p].client
    IN /\ \A d \in {c} \cup t.todo : ~manifest[d].offboarded
       /\ t.pc \in {"plan", "apply", "output"} => backend = c
       /\ t.pc \in {"apply", "verify"} => t.held = c
       /\ t.pc \in {"output", "verify", "pin", "write pin", "sync tfvars"} =>
            cloud[c].live = t.version
       /\ t.pc \in {"pin", "write pin", "sync tfvars"} =>
            cloud[c].ready /\ t.version \in served[c]
       /\ t.pc = "write pin" => t.text = [manifest EXCEPT ![c].version = t.version]
       /\ t.pc = "sync tfvars" => manifest[c].version = t.version

WalkInv ==
    orderly => \A p \in Terminals : term[p].cmd = "upgrade" => WalkOk(p)

\* An offboarding run alone: what was exported holds what it found, terraform
\* looks at its client, and a mark that claims proof has it.
OffboardOk(p) ==
    LET t == term[p]
        c == term[p].client
    IN /\ t.base <= data[c]
       /\ t.pc = "deliver" => t.base <= t.dump
       /\ t.pc \in {"init destroy", "destroy"} => t.args.skip_export \/ t.base <= archive[c]
       /\ t.pc \in {"destroy", "state list"} => backend = c
       /\ t.pc \in {"mark", "write mark"} /\ Proves(t.args, c) =>
            cloud[c].left \cap Managed = {}
       /\ t.pc = "write mark" => t.text = [manifest EXCEPT ![c].offboarded = TRUE]

OffboardInv ==
    orderly => \A p \in Terminals : term[p].cmd = "offboard" => OffboardOk(p)

IInv ==
    /\ TypeOK
    /\ TermInv
    /\ OneAtATime
    /\ WalkInv
    /\ OffboardInv
    /\ PinIsVerified
    /\ WalkLeavesGoodBehind
    /\ MarkIsBacked
=============================================================================
