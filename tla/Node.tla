-------------------------------- MODULE Node --------------------------------
(***************************************************************************)
(* The node binary (node/src): an operator runs invocations of it on one   *)
(* machine, and they share its directories and its ports.  An invocation   *)
(* goes through the stages of command::run and, when it runs a node,       *)
(* through those of start_parachain_node; every `?` is a place where it    *)
(* can end instead, the operator can kill it at any stage, and once a node *)
(* runs, the end of a task can stop it.                                    *)
(*                                                                         *)
(* Everything a process holds (database locks, ports, tasks) is in its     *)
(* record and goes with it, which is the operating system's doing; only    *)
(* directories outlive it.  A start need not come to an end: its awaits    *)
(* may hang, and nothing is assumed of them.                               *)
(***************************************************************************)
EXTENDS Naturals, Sequences

CONSTANTS
    Procs,        \* processes that may exist at once
    Invocations,  \* the command lines in use
    SpecFiles,    \* chain specification files: path -> specification
    RelaySpecs,   \* relay chains polkadot_cli knows: chain argument -> id of its specification
    None,         \* an argument that is not given, a value that is not there
    MaxStarts,    \* bound of the model: invocations in all
    MaxFaults     \* bound of the model: tasks that end, signals and kills

\* A command line: the subcommand (None: run a node), what comes before `--`, and
\* the chain and base path after it.
Invocation == [subcommand : STRING \cup {None}, chain : STRING \cup {None}, dev : BOOLEAN,
               base : STRING \cup {None}, flags : SUBSET STRING,
               relayChain : STRING \cup {None}, relayBase : STRING \cup {None}]

ASSUME NodeAssumption == /\ Invocations \subseteq Invocation
                         /\ None \notin STRING
                         /\ MaxStarts \in Nat /\ MaxFaults \in Nat

VARIABLES
    proc,    \* per process: where it is and what it holds
    disk,    \* the database directories that exist
    wrote,   \* which directories nodes have opened, with their arguments (history)
    starts, faults   \* counters of the two bounds

bounds == <<starts, faults>>
nodeVars == <<proc, disk, wrote, bounds>>

Stages == {"create_runner", "hwbench", "relay_config", "new_partial", "chain_op", "relay_interface",
           "build_network", "spawn_tasks", "relay_chain_tasks", "start_consensus", "start_network",
           "running", "panic", "purge_para", "purge_relay", "ok", "error"}

NoProcess == [at |-> "ok", inv |-> None, open |-> {}, ports |-> {}, tasks |-> {}, key |-> FALSE,
              failed |-> FALSE, signalled |-> FALSE, taken |-> {}, removed |-> {}]

Live(p) == proc[p].at \notin {"ok", "error"}

\* What an invocation shares with another one of the same arguments.
Arguments(inv) == [chain |-> inv.chain, dev |-> inv.dev, base |-> inv.base,
                   relayChain |-> inv.relayChain, relayBase |-> inv.relayBase]

\* The base paths an operator has named; None is the default one.
Places(inv) == {inv.base} \cup ({inv.relayBase} \ {None})

------------------------------------------------------------------------------
(***************************************************************************)
(* Chain specifications.                                                   *)
(***************************************************************************)
development_config == [id |-> "dev", relay_chain |-> "rococo-local"]
local_testnet_config == [id |-> "local_testnet", relay_chain |-> "rococo-local"]

load_spec(id) ==
    CASE id = "dev" -> development_config
      [] id \in {"template-rococo", "", "local"} -> local_testnet_config
      [] id \in DOMAIN SpecFiles -> SpecFiles[id]
      [] OTHER -> None

\* SharedParams::chain_id.
chain_id(inv) == IF inv.chain # None THEN inv.chain ELSE IF inv.dev THEN "dev" ELSE ""

SpecOf(inv) == load_spec(chain_id(inv))

(***************************************************************************)
(* Where an invocation keeps its data.  A node started with --dev alone    *)
(* uses a fresh temporary directory; other commands the default one.       *)
(***************************************************************************)
base_path(p, inv) ==
    IF inv.base # None THEN <<inv.base>>
    ELSE IF inv.dev /\ inv.subcommand = None THEN <<"tmp", p>>
    ELSE <<"default">>

ParaDatabase(p, inv) == Append(base_path(p, inv), SpecOf(inv).id)

relay_base_path(p, inv) ==
    IF inv.relayBase # None THEN <<inv.relayBase>> ELSE Append(base_path(p, inv), "polkadot")

\* The operator's relay chain, or the one the parachain's specification names.
relay_chain_id(inv) == IF inv.relayChain # None THEN inv.relayChain ELSE SpecOf(inv).relay_chain

RelayDatabase(p, inv) == Append(relay_base_path(p, inv), RelaySpecs[relay_chain_id(inv)])

(***************************************************************************)
(* No path of an operator is named like the default or a temporary one,    *)
(* and one who keeps the relay chain under the parachain's base path runs  *)
(* chains with different ids.                                              *)
(***************************************************************************)
ASSUME PathsAssumption ==
    \A inv \in Invocations :
        /\ {inv.base, inv.relayBase} \cap {"default", "tmp"} = {}
        /\ inv.base # None /\ inv.relayBase = inv.base
              => SpecOf(inv).id # RelaySpecs[relay_chain_id(inv)]

\* Mutant: the relay chain's RPC port is the parachain's.
RelayPortsClash == [p2p |-> 30334, rpc |-> 9944, prometheus |-> 9616]

RelayPorts == [p2p |-> 30334, rpc |-> 9945, prometheus |-> 9616]

ParaPorts == [p2p |-> 30333, rpc |-> 9944, prometheus |-> 9615]

\* RunCmd::role after normalize: --collator is --validator, and --dev and the keyring
\* flags (--alice and the others) imply it.
is_authority(inv) == inv.dev \/ inv.flags \cap {"collator", "validator", "alice"} # {}

ExternalRelay(inv) == "relay-chain-rpc-urls" \in inv.flags

------------------------------------------------------------------------------
(***************************************************************************)
(* Steps of a process.  GoOn takes it to another stage with what it holds  *)
(* from then on, End ends it.                                              *)
(***************************************************************************)
GoOn(p, stage, held) == proc' = [proc EXCEPT ![p] = [held EXCEPT !.at = stage]]

\* The operating system takes back what a process held.
Ended(pr, outcome) == [pr EXCEPT !.at = outcome, !.open = {}, !.ports = {}, !.tasks = {},
                                 !.key = FALSE, !.failed = FALSE, !.signalled = FALSE]

End(p, outcome) == proc' = [proc EXCEPT ![p] = Ended(@, outcome)]

\* The processes that have a directory open, or one of some ports.
DatabaseHolders(dir) == {q \in Procs : dir \in proc[q].open}
PortHolders(ports) == {q \in Procs : ports \cap proc[q].ports # {}}

\* What p had to do without, and who had it: kept for the properties.
Taken(p, kind, holders) ==
    {[kind |-> kind, own |-> q = p, places |-> Places(proc[q].inv)] : q \in holders}

\* A port in use is no reason to stop: the node goes on without it, or with another.
Listen(p, pr, ports) ==
    [pr EXCEPT !.ports = @ \cup {n \in ports : PortHolders({n}) = {}},
               !.taken = @ \cup Taken(p, "port", PortHolders(ports))]

\* The operator starts an invocation in a free process.
start(p, inv) ==
    /\ ~Live(p)
    /\ starts < MaxStarts
    /\ starts' = starts + 1
    /\ proc' = [proc EXCEPT ![p] = [NoProcess EXCEPT !.at = "create_runner", !.inv = inv]]
    /\ UNCHANGED <<disk, wrote, faults>>

(***************************************************************************)
(* create_runner loads the chain specification; then the match of run().   *)
(* Subcommands that work without a database are done with it; without the  *)
(* runtime-benchmarks feature `benchmark pallet` and `benchmark storage`   *)
(* are errors.                                                             *)
(***************************************************************************)
DatabaseCommands == {"check-block", "export-blocks", "export-state", "import-blocks", "revert",
                     "export-genesis-head", "benchmark block"}
PlainCommands == {"build-spec", "export-genesis-wasm", "benchmark machine"}

StageAfterRunner(subcommand) ==
    IF subcommand = None THEN "hwbench"
    ELSE IF subcommand = "purge-chain" THEN "relay_config"
    ELSE IF subcommand \in DatabaseCommands THEN "new_partial"
    ELSE IF subcommand \in PlainCommands THEN "ok"
    ELSE "error"

create_runner(p) ==
    LET inv == proc[p].inv
        stage == IF SpecOf(inv) = None THEN "error" ELSE StageAfterRunner(inv.subcommand)
    IN
    /\ proc[p].at = "create_runner"
    /\ IF stage \in {"ok", "error"} THEN End(p, stage) ELSE GoOn(p, stage, proc[p])
    /\ UNCHANGED <<disk, wrote, bounds>>

\* The hardware benchmark creates the database directory, open elsewhere or not.
hwbench(p) ==
    /\ proc[p].at = "hwbench"
    /\ disk' = IF "no-hardware-benchmarks" \in proc[p].inv.flags THEN disk
               ELSE disk \cup {ParaDatabase(p, proc[p].inv)}
    /\ GoOn(p, "relay_config", proc[p])
    /\ UNCHANGED <<wrote, bounds>>

\* RelayChainCli::new and create_configuration, for a node and for purge-chain.
relay_config(p) ==
    /\ proc[p].at = "relay_config"
    /\ IF relay_chain_id(proc[p].inv) \notin DOMAIN RelaySpecs THEN End(p, "error")
       ELSE GoOn(p, IF proc[p].inv.subcommand = None THEN "new_partial" ELSE "purge_para", proc[p])
    /\ UNCHANGED <<disk, wrote, bounds>>

(***************************************************************************)
(* new_partial opens the parachain's database, which must not be open, and *)
(* spawns the telemetry worker, the pool and the import queue.             *)
(***************************************************************************)
new_partial(p) ==
    LET inv == proc[p].inv
        dir == ParaDatabase(p, inv)
        telemetry == IF "telemetry" \in inv.flags THEN {"telemetry"} ELSE {}
    IN
    /\ proc[p].at = "new_partial"
    /\ IF DatabaseHolders(dir) = {}
       THEN /\ GoOn(p, IF inv.subcommand = None THEN "relay_interface" ELSE "chain_op",
                    [proc[p] EXCEPT !.open = {dir},
                                    !.tasks = telemetry \cup {"txpool", "import-queue"}])
            /\ disk' = disk \cup {dir}
            /\ wrote' = wrote \cup {<<Arguments(inv), dir>>}
       ELSE /\ proc' = [proc EXCEPT ![p] =
                          Ended([@ EXCEPT !.taken = Taken(p, "database", DatabaseHolders(dir))], "error")]
            /\ UNCHANGED <<disk, wrote>>
    /\ UNCHANGED bounds

\* check-block, export-blocks, export-genesis-head, ... do their work.
chain_op(p) ==
    /\ proc[p].at = "chain_op"
    /\ End(p, "ok")
    /\ UNCHANGED <<disk, wrote, bounds>>

(***************************************************************************)
(* The rest of start_parachain_node.  The embedded relay chain node is a   *)
(* full node with a database and ports of its own, and its tasks are a     *)
(* child of the task manager; it comes with a collator key only for an     *)
(* authority.  An external one is a connection and a networking node, and  *)
(* always comes with a key.                                                *)
(***************************************************************************)
\* Mutant: the key depends on --collator, not on the role.
collator_key_of_flag(inv) == ExternalRelay(inv) \/ "collator" \in inv.flags

collator_key(inv) == ExternalRelay(inv) \/ is_authority(inv)

build_relay_chain_interface(p) ==
    LET inv == proc[p].inv
        dir == RelayDatabase(p, inv)
    IN
    /\ proc[p].at = "relay_interface"
    /\ IF ExternalRelay(inv)
       THEN /\ GoOn(p, "build_network",
                    Listen(p, [proc[p] EXCEPT !.tasks = @ \cup {"relay"}, !.key = collator_key(inv)],
                           {RelayPorts.p2p}))
            /\ UNCHANGED <<disk, wrote>>
       ELSE IF DatabaseHolders(dir) = {}
       THEN /\ GoOn(p, "build_network",
                    Listen(p, [proc[p] EXCEPT !.open = @ \cup {dir}, !.tasks = @ \cup {"relay"},
                                              !.key = collator_key(inv)],
                           {RelayPorts[k] : k \in DOMAIN RelayPorts}))
            /\ disk' = disk \cup {dir}
            /\ wrote' = wrote \cup {<<Arguments(inv), dir>>}
       ELSE /\ proc' = [proc EXCEPT ![p] =
                          Ended([@ EXCEPT !.taken = Taken(p, "database", DatabaseHolders(dir))], "error")]
            /\ UNCHANGED <<disk, wrote>>
    /\ UNCHANGED bounds

build_network(p) ==
    /\ proc[p].at = "build_network"
    /\ GoOn(p, "spawn_tasks", Listen(p, proc[p], {ParaPorts.p2p}))
    /\ UNCHANGED <<disk, wrote, bounds>>

\* The offchain workers, the RPC server over create_full's module, the metrics
\* endpoint and the benchmark's telemetry: none of them is essential.
spawn_tasks(p) ==
    LET tasks == (IF "offchain-worker" \in proc[p].inv.flags THEN {"offchain-workers"} ELSE {})
                 \cup {"rpc"}
    IN
    /\ proc[p].at = "spawn_tasks"
    /\ GoOn(p, "relay_chain_tasks",
            Listen(p, [proc[p] EXCEPT !.tasks = @ \cup tasks], {ParaPorts.rpc, ParaPorts.prometheus}))
    /\ UNCHANGED <<disk, wrote, bounds>>

\* Mutant: whoever has a key collates, instead of `if validator`.
start_relay_chain_tasks_all(p) ==
    /\ proc[p].at = "relay_chain_tasks"
    /\ GoOn(p, IF proc[p].key THEN "start_consensus" ELSE "start_network",
            [proc[p] EXCEPT !.tasks = @ \cup {"cumulus-consensus"}])
    /\ UNCHANGED <<disk, wrote, bounds>>

start_relay_chain_tasks(p) ==
    /\ proc[p].at = "relay_chain_tasks"
    /\ GoOn(p, IF is_authority(proc[p].inv) THEN "start_consensus" ELSE "start_network",
            [proc[p] EXCEPT !.tasks = @ \cup {"cumulus-consensus"}])
    /\ UNCHANGED <<disk, wrote, bounds>>

\* A key that is not there would be a panic of expect().
start_consensus(p) ==
    /\ proc[p].at = "start_consensus"
    /\ IF proc[p].key THEN GoOn(p, "start_network", [proc[p] EXCEPT !.tasks = @ \cup {"aura"}])
       ELSE GoOn(p, "panic", proc[p])
    /\ UNCHANGED <<disk, wrote, bounds>>

start_network(p) ==
    /\ proc[p].at = "start_network"
    /\ GoOn(p, "running", proc[p])
    /\ UNCHANGED <<disk, wrote, bounds>>

\* The stages with a `?`, or whose work can fail half-way.
Fallible == {"new_partial", "chain_op", "relay_interface", "build_network", "spawn_tasks",
             "relay_chain_tasks", "purge_para", "purge_relay"}

\* The error ends the process with all its tasks.
startFails(p) ==
    /\ proc[p].at \in Fallible
    /\ End(p, "error")
    /\ UNCHANGED <<disk, wrote, bounds>>

(***************************************************************************)
(* A running node.  The end of an essential task, or a signal, is noted at *)
(* any stage and acted upon by run_node_until_exit once the start is done. *)
(***************************************************************************)
\* Mutant: aura is spawned with spawn_handle.
EssentialWithoutAura == {"txpool", "import-queue", "relay", "cumulus-consensus"}

Essential == {"txpool", "import-queue", "relay", "cumulus-consensus", "aura"}

Fault == /\ faults < MaxFaults
         /\ faults' = faults + 1
         /\ UNCHANGED <<disk, wrote, starts>>

taskEnds(p, task) ==
    /\ task \in proc[p].tasks
    /\ Fault
    /\ proc' = [proc EXCEPT ![p].tasks = @ \ {task}, ![p].failed = @ \/ task \in Essential]

signal(p) ==
    /\ Live(p)
    /\ Fault
    /\ proc' = [proc EXCEPT ![p].signalled = TRUE]

\* Mutant: only a signal stops the node.
run_node_until_signal(p) ==
    /\ proc[p].at = "running"
    /\ proc[p].signalled
    /\ End(p, IF proc[p].failed THEN "error" ELSE "ok")
    /\ UNCHANGED <<disk, wrote, bounds>>

run_node_until_exit(p) ==
    /\ proc[p].at = "running"
    /\ proc[p].failed \/ proc[p].signalled
    /\ End(p, IF proc[p].failed THEN "error" ELSE "ok")
    /\ UNCHANGED <<disk, wrote, bounds>>

kill(p) ==
    /\ Live(p)
    /\ Fault
    /\ End(p, "error")

(***************************************************************************)
(* purge-chain removes the parachain's directory, then the relay chain's,  *)
(* without opening them; a directory that is not there is no error.        *)
(***************************************************************************)
purge_para(p) ==
    LET dir == ParaDatabase(p, proc[p].inv) IN
    /\ proc[p].at = "purge_para"
    /\ disk' = disk \ {dir}
    /\ GoOn(p, "purge_relay", [proc[p] EXCEPT !.removed = {dir}])
    /\ UNCHANGED <<wrote, bounds>>

\* Mutant: what comes after `--` is not passed on.
purge_relay_no_args(p) ==
    LET dir == RelayDatabase(p, [proc[p].inv EXCEPT !.relayBase = None, !.relayChain = None])
        purged == [proc[p] EXCEPT !.removed = @ \cup {dir}]
    IN
    /\ proc[p].at = "purge_relay"
    /\ disk' = disk \ {dir}
    /\ proc' = [proc EXCEPT ![p] = Ended(purged, "ok")]
    /\ UNCHANGED <<wrote, bounds>>

purge_relay(p) ==
    LET dir == RelayDatabase(p, proc[p].inv)
        purged == [proc[p] EXCEPT !.removed = @ \cup {dir}]
    IN
    /\ proc[p].at = "purge_relay"
    /\ disk' = disk \ {dir}
    /\ proc' = [proc EXCEPT ![p] = Ended(purged, "ok")]
    /\ UNCHANGED <<wrote, bounds>>

------------------------------------------------------------------------------
NodeInit ==
    /\ proc = [p \in Procs |-> NoProcess]
    /\ disk = {}
    /\ wrote = {}
    /\ starts = 0 /\ faults = 0

\* What a process does by itself.
Step(p) ==
    \/ create_runner(p)
    \/ hwbench(p)
    \/ relay_config(p)
    \/ new_partial(p)
    \/ chain_op(p)
    \/ build_relay_chain_interface(p)
    \/ build_network(p)
    \/ spawn_tasks(p)
    \/ start_relay_chain_tasks(p)
    \/ start_consensus(p)
    \/ start_network(p)
    \/ startFails(p)
    \/ run_node_until_exit(p)
    \/ purge_para(p)
    \/ purge_relay(p)

NodeNext ==
    \E p \in Procs :
        \/ Step(p)
        \/ \E inv \in Invocations : start(p, inv)
        \/ \E task \in proc[p].tasks : taskEnds(p, task)
        \/ signal(p)
        \/ kill(p)

\* A node that runs sees a signal and the end of an essential task.  No fairness of the start.
NodeSpec ==
    NodeInit /\ [][NodeNext]_nodeVars /\ \A p \in Procs : WF_nodeVars(run_node_until_exit(p))

------------------------------------------------------------------------------
(***************************************************************************)
(* Properties.                                                             *)
(***************************************************************************)
(***************************************************************************)
(* "Command line arguments do not allow this. qed": start_consensus always *)
(* finds the collator key, whichever of --collator, --dev and an external  *)
(* relay chain made the node an authority.                                 *)
(***************************************************************************)
CollatorKeyThere == \A p \in Procs : proc[p].at # "panic"

(***************************************************************************)
(* Only an authority collates, and with a key.  The key alone does not     *)
(* tell: over an external relay chain a full node is handed one as well.   *)
(***************************************************************************)
OnlyAuthoritiesCollate ==
    \A p \in Procs : "aura" \in proc[p].tasks => is_authority(proc[p].inv) /\ proc[p].key

(***************************************************************************)
(* A node is never in its own way, and never in the way of one in another  *)
(* place: the parachain and the relay chain of a process listen on         *)
(* different ports, and a database that is open belongs to a process that  *)
(* was given one of the same base paths.                                   *)
(***************************************************************************)
NotInItsOwnWay ==
    \A p \in Procs : \A t \in proc[p].taken :
        /\ ~t.own
        /\ t.kind = "database" => t.places \cap Places(proc[p].inv) # {}

(***************************************************************************)
(* purge-chain removes what a node with the same arguments has written,    *)
(* its relay chain's database included, and nothing that belongs to        *)
(* another place: the two configurations are built by separate code.       *)
(***************************************************************************)
PurgedWhatRunWrote ==
    \A p \in Procs :
        proc[p].at = "ok" /\ proc[p].removed # {} =>
            \A w \in wrote :
                /\ w[1] = Arguments(proc[p].inv) /\ (w[1].base # None \/ ~w[1].dev)
                      => w[2] \in proc[p].removed
                /\ w[2] \in proc[p].removed
                      => Places(w[1]) \cap Places(proc[p].inv) # {}

(***************************************************************************)
(* A node that runs has all its essential tasks, as a collator aura as     *)
(* well, or has noted that one ended.                                      *)
(***************************************************************************)
RunningIsWhole ==
    \A p \in Procs :
        proc[p].at = "running" /\ ~proc[p].failed =>
            /\ Essential \ {"aura"} \subseteq proc[p].tasks
            /\ is_authority(proc[p].inv) => "aura" \in proc[p].tasks

\* A collator whose aura task has ended does not go on without it.
NoIdleCollator ==
    \A p \in Procs :
        proc[p].at = "running" /\ is_authority(proc[p].inv) /\ "aura" \notin proc[p].tasks ~> ~Live(p)

=============================================================================
