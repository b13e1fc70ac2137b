----------------------------- MODULE NodeProofs -----------------------------
(***************************************************************************)
(* Node, for any processes, command lines, chain specifications and number *)
(* of faults: what a process holds at each stage of its start.             *)
(***************************************************************************)
EXTENDS Node, TLAPS

------------------------------------------------------------------------------
(***************************************************************************)
(* The invariant, about one process.                                       *)
(***************************************************************************)
Fields == {"at", "inv", "open", "ports", "tasks", "key", "failed", "signalled", "taken", "removed"}

\* The stages of start_parachain_node after each of its parts.
WithNetwork == {"start_network", "running"}
WithConsensus == WithNetwork \cup {"start_consensus"}
WithRelay == WithConsensus \cup {"build_network", "spawn_tasks", "relay_chain_tasks"}
WithPartial == WithRelay \cup {"relay_interface"}

\* The essential tasks spawned by then.
Spawned(pr) ==
    /\ pr.at \in WithPartial => {"txpool", "import-queue"} \subseteq pr.tasks
    /\ pr.at \in WithRelay => "relay" \in pr.tasks
    /\ pr.at \in WithConsensus => "cumulus-consensus" \in pr.tasks
    /\ pr.at \in WithNetwork /\ is_authority(pr.inv) => "aura" \in pr.tasks

Good(pr) ==
    /\ DOMAIN pr = Fields
    /\ pr.at \in Stages \ {"panic"}
    /\ pr.key \in BOOLEAN /\ pr.failed \in BOOLEAN
    /\ pr.at \in {"ok", "error"} => pr.open = {} /\ pr.ports = {} /\ pr.tasks = {}
    /\ pr.at \in WithRelay /\ is_authority(pr.inv) => pr.key
    /\ pr.at = "start_consensus" => is_authority(pr.inv)
    /\ "aura" \in pr.tasks => is_authority(pr.inv) /\ pr.key
    /\ ~pr.failed => Spawned(pr)

NodeInv ==
    /\ proc = [p \in Procs |-> proc[p]]
    /\ \A p \in Procs : Good(proc[p])

------------------------------------------------------------------------------
\* A process that is not there.
LEMMA NoProcessGood == Good(NoProcess)
BY DEF Good, Spawned, NoProcess, Fields, Stages, WithNetwork, WithConsensus, WithRelay, WithPartial

LEMMA NodeInvInit == NodeInit => NodeInv
BY NoProcessGood DEF NodeInit, NodeInv

\* A step changes one process.
LEMMA OneProcess ==
    ASSUME NodeInv, NEW p \in Procs, NEW pr, Good(pr), proc' = [proc EXCEPT ![p] = pr]
    PROVE  NodeInv'
BY DEF NodeInv

\* A process that ends holds nothing.
LEMMA EndedGood ==
    ASSUME NEW pr, DOMAIN pr = Fields, NEW outcome \in {"ok", "error"}
    PROVE  Good(Ended(pr, outcome))
BY DEF Ended, Good, Spawned, Fields, Stages, WithNetwork, WithConsensus, WithRelay, WithPartial

LEMMA EndStep ==
    ASSUME NodeInv, NEW p \in Procs, NEW outcome \in {"ok", "error"}, End(p, outcome)
    PROVE  NodeInv'
<1>1. Good(Ended(proc[p], outcome))
  BY EndedGood DEF NodeInv, Good
<1>2. proc' = [proc EXCEPT ![p] = Ended(proc[p], outcome)]
  BY DEF End
<1> QED  BY <1>1, <1>2, OneProcess

\* Listening changes no more than the ports and what was found taken.
LEMMA ListenFields ==
    ASSUME NEW p \in Procs, NEW pr, NEW ports, DOMAIN pr = Fields
    PROVE  /\ DOMAIN Listen(p, pr, ports) = Fields
           /\ \A f \in Fields \ {"ports", "taken"} : Listen(p, pr, ports)[f] = pr[f]
BY DEF Listen, Fields

\* Going on to another stage.
LEMMA GoOnStep ==
    ASSUME NodeInv, NEW p \in Procs, NEW stage, NEW held, GoOn(p, stage, held),
           Good([held EXCEPT !.at = stage])
    PROVE  NodeInv'
BY OneProcess DEF GoOn

------------------------------------------------------------------------------
(***************************************************************************)
(* The stages.                                                             *)
(***************************************************************************)
\* Before new_partial nothing is required of a process.
LEMMA EarlyStages ==
    ASSUME NodeInv, NEW p \in Procs,
           create_runner(p) \/ hwbench(p) \/ relay_config(p) \/ purge_para(p)
    PROVE  NodeInv'
<1> DEFINE pr == proc[p]
<1>0. Good(pr)
  BY DEF NodeInv
<1>1. ASSUME NEW stage \in {"hwbench", "relay_config", "new_partial", "purge_para", "purge_relay"},
             GoOn(p, stage, pr)
      PROVE  NodeInv'
  <2>1. Good([pr EXCEPT !.at = stage])
    BY <1>0 DEF Good, Spawned, Fields, Stages, WithNetwork, WithConsensus, WithRelay, WithPartial
  <2> QED  BY <1>1, <2>1, GoOnStep
<1>2. CASE create_runner(p)
  <2> DEFINE stage == IF SpecOf(pr.inv) = None THEN "error" ELSE StageAfterRunner(pr.inv.subcommand)
  <2>1. stage \in {"hwbench", "relay_config", "new_partial", "ok", "error"}
    BY DEF StageAfterRunner
  <2>2. IF stage \in {"ok", "error"} THEN End(p, stage) ELSE GoOn(p, stage, pr)
    BY <1>2 DEF create_runner
  <2> HIDE DEF stage
  <2> QED  BY <1>1, <2>1, <2>2, EndStep
<1>3. CASE hwbench(p)
  BY <1>1, <1>3 DEF hwbench
<1>4. CASE relay_config(p)
  BY <1>1, <1>4, EndStep DEF relay_config
<1>5. CASE purge_para(p)
  <2> DEFINE held == [pr EXCEPT !.removed = {ParaDatabase(p, pr.inv)}]
  <2>1. Good([held EXCEPT !.at = "purge_relay"])
    BY <1>0 DEF Good, Spawned, Fields, Stages, WithNetwork, WithConsensus, WithRelay, WithPartial
  <2>2. GoOn(p, "purge_relay", held)
    BY <1>5 DEF purge_para
  <2> QED  BY <2>1, <2>2, GoOnStep
<1> QED  BY <1>2, <1>3, <1>4, <1>5

\* Refused because a database is open elsewhere.
LEMMA RefusedStep ==
    ASSUME NodeInv, NEW p \in Procs, NEW taken,
           proc' = [proc EXCEPT ![p] = Ended([@ EXCEPT !.taken = taken], "error")]
    PROVE  NodeInv'
<1>1. DOMAIN [proc[p] EXCEPT !.taken = taken] = Fields
  BY DEF NodeInv, Good
<1>2. Good(Ended([proc[p] EXCEPT !.taken = taken], "error"))
  BY <1>1, EndedGood
<1>3. proc' = [proc EXCEPT ![p] = Ended([proc[p] EXCEPT !.taken = taken], "error")]
  OBVIOUS
<1> QED  BY <1>2, <1>3, OneProcess

\* new_partial spawns the pool and the import queue.
LEMMA NewPartialStep ==
    ASSUME NodeInv, NEW p \in Procs, new_partial(p)
    PROVE  NodeInv'
<1> DEFINE pr == proc[p]
           dir == ParaDatabase(p, pr.inv)
           telemetry == IF "telemetry" \in pr.inv.flags THEN {"telemetry"} ELSE {}
           held == [pr EXCEPT !.open = {dir}, !.tasks = telemetry \cup {"txpool", "import-queue"}]
           stage == IF pr.inv.subcommand = None THEN "relay_interface" ELSE "chain_op"
<1>0. Good(pr) /\ pr.at = "new_partial"
  BY DEF NodeInv, new_partial
<1>1. CASE DatabaseHolders(dir) = {}
  <2>1. GoOn(p, stage, held)
    BY <1>1 DEF new_partial
  <2>2. Good([held EXCEPT !.at = stage])
    BY <1>0 DEF Good, Spawned, Fields, Stages, WithNetwork, WithConsensus, WithRelay, WithPartial
  <2> QED  BY <2>1, <2>2, GoOnStep
<1>2. CASE DatabaseHolders(dir) # {}
  <2>1. proc' = [proc EXCEPT ![p] =
                   Ended([@ EXCEPT !.taken = Taken(p, "database", DatabaseHolders(dir))], "error")]
    BY <1>2 DEF new_partial
  <2> QED  BY <2>1, RefusedStep
<1> QED  BY <1>1, <1>2

\* The relay chain comes with a key for every authority.
LEMMA RelayStep ==
    ASSUME NodeInv, NEW p \in Procs, build_relay_chain_interface(p)
    PROVE  NodeInv'
<1> DEFINE pr == proc[p]
           dir == RelayDatabase(p, pr.inv)
<1>0. Good(pr) /\ pr.at = "relay_interface"
  BY DEF NodeInv, build_relay_chain_interface
<1>1. ASSUME NEW held, NEW ports, DOMAIN held = Fields,
             held.inv = pr.inv, held.failed = pr.failed, held.key = collator_key(pr.inv),
             held.tasks = pr.tasks \cup {"relay"},
             GoOn(p, "build_network", Listen(p, held, ports))
      PROVE  NodeInv'
  <2> DEFINE on == Listen(p, held, ports)
  <2>1. /\ DOMAIN on = Fields
        /\ on.inv = pr.inv /\ on.failed = pr.failed /\ on.key = collator_key(pr.inv)
        /\ on.tasks = pr.tasks \cup {"relay"}
    BY <1>1, ListenFields DEF Fields
  <2> HIDE DEF on
  <2>2. collator_key(pr.inv) \in BOOLEAN /\ (is_authority(pr.inv) => collator_key(pr.inv))
    BY DEF collator_key
  <2>3. Good([on EXCEPT !.at = "build_network"])
    BY <1>0, <2>1, <2>2
    DEF Good, Spawned, Fields, Stages, WithNetwork, WithConsensus, WithRelay, WithPartial
  <2> QED  BY <1>1, <2>3, GoOnStep DEF on
<1>2. CASE ExternalRelay(pr.inv)
  <2> DEFINE held == [pr EXCEPT !.tasks = @ \cup {"relay"}, !.key = collator_key(pr.inv)]
  <2>1. /\ DOMAIN held = Fields /\ held.inv = pr.inv /\ held.failed = pr.failed
        /\ held.key = collator_key(pr.inv) /\ held.tasks = pr.tasks \cup {"relay"}
    BY <1>0 DEF Good, Fields
  <2>2. GoOn(p, "build_network", Listen(p, held, {RelayPorts.p2p}))
    BY <1>2 DEF build_relay_chain_interface
  <2> HIDE DEF held
  <2> QED  BY <1>1, <2>1, <2>2
<1>3. CASE ~ExternalRelay(pr.inv) /\ DatabaseHolders(dir) = {}
  <2> DEFINE held == [pr EXCEPT !.open = @ \cup {dir}, !.tasks = @ \cup {"relay"},
                                !.key = collator_key(pr.inv)]
  <2>1. /\ DOMAIN held = Fields /\ held.inv = pr.inv /\ held.failed = pr.failed
        /\ held.key = collator_key(pr.inv) /\ held.tasks = pr.tasks \cup {"relay"}
    BY <1>0 DEF Good, Fields
  <2>2. GoOn(p, "build_network", Listen(p, held, {RelayPorts[k] : k \in DOMAIN RelayPorts}))
    BY <1>3 DEF build_relay_chain_interface
  <2> HIDE DEF held
  <2> QED  BY <1>1, <2>1, <2>2
<1>4. CASE ~ExternalRelay(pr.inv) /\ DatabaseHolders(dir) # {}
  <2>1. proc' = [proc EXCEPT ![p] =
                   Ended([@ EXCEPT !.taken = Taken(p, "database", DatabaseHolders(dir))], "error")]
    BY <1>4 DEF build_relay_chain_interface
  <2> QED  BY <2>1, RefusedStep
<1> QED  BY <1>2, <1>3, <1>4

\* The network and the tasks that are not essential.
LEMMA NetworkStep ==
    ASSUME NodeInv, NEW p \in Procs, build_network(p) \/ spawn_tasks(p)
    PROVE  NodeInv'
<1> DEFINE pr == proc[p]
<1>0. Good(pr) /\ pr.at \in {"build_network", "spawn_tasks"}
  BY DEF NodeInv, build_network, spawn_tasks
<1>1. ASSUME NEW held, NEW ports, NEW stage \in {"spawn_tasks", "relay_chain_tasks"},
             DOMAIN held = Fields, held.inv = pr.inv, held.failed = pr.failed, held.key = pr.key,
             pr.tasks \subseteq held.tasks, "aura" \in held.tasks => "aura" \in pr.tasks,
             GoOn(p, stage, Listen(p, held, ports))
      PROVE  NodeInv'
  <2> DEFINE on == Listen(p, held, ports)
  <2>1. /\ DOMAIN on = Fields
        /\ on.inv = pr.inv /\ on.failed = pr.failed /\ on.key = pr.key
        /\ pr.tasks \subseteq on.tasks /\ ("aura" \in on.tasks => "aura" \in pr.tasks)
    BY <1>1, ListenFields DEF Fields
  <2> HIDE DEF on
  <2>2. Good([on EXCEPT !.at = stage])
    BY <1>0, <2>1
    DEF Good, Spawned, Fields, Stages, WithNetwork, WithConsensus, WithRelay, WithPartial
  <2> QED  BY <1>1, <2>2, GoOnStep DEF on
<1>2. CASE build_network(p)
  BY <1>0, <1>1, <1>2 DEF build_network, Good
<1>3. CASE spawn_tasks(p)
  <2>1. PICK tasks \in SUBSET {"offchain-workers", "rpc"} :
            GoOn(p, "relay_chain_tasks",
                 Listen(p, [pr EXCEPT !.tasks = @ \cup tasks], {ParaPorts.rpc, ParaPorts.prometheus}))
    BY <1>3 DEF spawn_tasks
  <2> DEFINE held == [pr EXCEPT !.tasks = @ \cup tasks]
  <2>2. /\ DOMAIN held = Fields /\ held.inv = pr.inv /\ held.failed = pr.failed
        /\ held.key = pr.key /\ pr.tasks \subseteq held.tasks
        /\ "aura" \in held.tasks => "aura" \in pr.tasks
    BY <1>0 DEF Good, Fields
  <2>3. GoOn(p, "relay_chain_tasks", Listen(p, held, {ParaPorts.rpc, ParaPorts.prometheus}))
    BY <2>1
  <2> HIDE DEF held
  <2> QED  BY <1>1, <2>2, <2>3
<1> QED  BY <1>2, <1>3

\* start_consensus is reached by authorities alone, and they have a key.
LEMMA ConsensusStep ==
    ASSUME NodeInv, NEW p \in Procs,
           start_relay_chain_tasks(p) \/ start_consensus(p) \/ start_network(p)
    PROVE  NodeInv'
<1> DEFINE pr == proc[p]
<1>0. Good(pr)
  BY DEF NodeInv
<1>1. CASE start_relay_chain_tasks(p)
  <2> DEFINE stage == IF is_authority(pr.inv) THEN "start_consensus" ELSE "start_network"
             held == [pr EXCEPT !.tasks = @ \cup {"cumulus-consensus"}]
  <2>1. GoOn(p, stage, held) /\ pr.at = "relay_chain_tasks"
    BY <1>1 DEF start_relay_chain_tasks
  <2>2. Good([held EXCEPT !.at = stage])
    BY <1>0, <2>1
    DEF Good, Spawned, Fields, Stages, WithNetwork, WithConsensus, WithRelay, WithPartial
  <2> QED  BY <2>1, <2>2, GoOnStep
<1>2. CASE start_consensus(p)
  <2> DEFINE held == [pr EXCEPT !.tasks = @ \cup {"aura"}]
  <2>1. pr.at = "start_consensus" /\ pr.key
    BY <1>0, <1>2 DEF start_consensus, Good, WithRelay, WithConsensus
  <2>2. GoOn(p, "start_network", held)
    BY <1>2, <2>1 DEF start_consensus
  <2>3. Good([held EXCEPT !.at = "start_network"])
    BY <1>0, <2>1
    DEF Good, Spawned, Fields, Stages, WithNetwork, WithConsensus, WithRelay, WithPartial
  <2> QED  BY <2>2, <2>3, GoOnStep
<1>3. CASE start_network(p)
  <2>1. GoOn(p, "running", pr) /\ pr.at = "start_network"
    BY <1>3 DEF start_network
  <2>2. Good([pr EXCEPT !.at = "running"])
    BY <1>0, <2>1
    DEF Good, Spawned, Fields, Stages, WithNetwork, WithConsensus, WithRelay, WithPartial
  <2> QED  BY <2>1, <2>2, GoOnStep
<1> QED  BY <1>1, <1>2, <1>3

\* The ends of a process: done, an error, a signal, a kill, a purge.
LEMMA EndSteps ==
    ASSUME NodeInv, NEW p \in Procs,
           chain_op(p) \/ startFails(p) \/ run_node_until_exit(p) \/ kill(p) \/ purge_relay(p)
    PROVE  NodeInv'
<1>1. CASE chain_op(p) \/ startFails(p) \/ run_node_until_exit(p) \/ kill(p)
  BY <1>1, EndStep DEF chain_op, startFails, run_node_until_exit, kill
<1>2. CASE purge_relay(p)
  <2> DEFINE held == [proc[p] EXCEPT !.removed = @ \cup {RelayDatabase(p, proc[p].inv)}]
  <2>1. DOMAIN held = Fields
    BY DEF NodeInv, Good
  <2>2. proc' = [proc EXCEPT ![p] = Ended(held, "ok")]
    BY <1>2 DEF purge_relay
  <2> HIDE DEF held
  <2> QED  BY <2>1, <2>2, EndedGood, OneProcess
<1> QED  BY <1>1, <1>2

\* The end of an essential task is noted; others are not required.
LEMMA TaskEndsStep ==
    ASSUME NodeInv, NEW p \in Procs, NEW task, taskEnds(p, task)
    PROVE  NodeInv'
<1> DEFINE pr == proc[p]
           left == [pr EXCEPT !.tasks = @ \ {task}]
           new == [left EXCEPT !.failed = @ \/ task \in Essential]
<1>0. Good(pr) /\ task \in pr.tasks
  BY DEF NodeInv, taskEnds
<1>1. proc' = [proc EXCEPT ![p] = new]
  BY DEF taskEnds, NodeInv
<1>2. /\ DOMAIN left = Fields
      /\ left.at = pr.at /\ left.inv = pr.inv /\ left.open = pr.open /\ left.ports = pr.ports
      /\ left.key = pr.key /\ left.failed = pr.failed /\ left.tasks = pr.tasks \ {task}
  BY <1>0 DEF Good, Fields
<1> HIDE DEF left
<1>3. /\ DOMAIN new = Fields
      /\ new.at = pr.at /\ new.inv = pr.inv /\ new.open = pr.open /\ new.ports = pr.ports
      /\ new.key = pr.key /\ new.tasks = pr.tasks \ {task}
      /\ new.failed = (pr.failed \/ task \in Essential)
  BY <1>2 DEF Fields
<1> HIDE DEF new
<1>4. Spawned(pr) /\ task \notin Essential => Spawned(new)
  BY <1>3 DEF Spawned, Essential
<1>5. Good(new)
  BY <1>0, <1>3, <1>4 DEF Good
<1> QED  BY <1>1, <1>5, OneProcess

\* A new process holds nothing; a signal is noted.
LEMMA OperatorStep ==
    ASSUME NodeInv, NEW p \in Procs,
           (\E inv \in Invocations : start(p, inv)) \/ signal(p)
    PROVE  NodeInv'
<1>1. ASSUME NEW inv \in Invocations, start(p, inv) PROVE NodeInv'
  <2> DEFINE new == [NoProcess EXCEPT !.at = "create_runner", !.inv = inv]
  <2>1. Good(new)
    BY DEF Good, Spawned, NoProcess, Fields, Stages, WithNetwork, WithConsensus, WithRelay, WithPartial
  <2>2. proc' = [proc EXCEPT ![p] = new]
    BY <1>1 DEF start
  <2> HIDE DEF new
  <2> QED  BY <2>1, <2>2, OneProcess
<1>2. CASE signal(p)
  <2> DEFINE new == [proc[p] EXCEPT !.signalled = TRUE]
  <2>1. Good(proc[p])
    BY DEF NodeInv
  <2>2. /\ DOMAIN new = Fields
        /\ \A f \in Fields \ {"signalled"} : new[f] = proc[p][f]
    BY <2>1 DEF Good, Fields
  <2>3. proc' = [proc EXCEPT ![p] = new]
    BY <1>2 DEF signal, NodeInv
  <2> HIDE DEF new
  <2>4. Good(new)
    BY <2>1, <2>2 DEF Good, Spawned, Fields
  <2> QED  BY <2>3, <2>4, OneProcess
<1> QED  BY <1>1, <1>2

------------------------------------------------------------------------------
\* One case per step.
LEMMA NodeInvNext == NodeInv /\ [NodeNext]_nodeVars => NodeInv'
<1>1. ASSUME NodeInv, NodeNext PROVE NodeInv'
  <2>1. PICK p \in Procs :
           \/ Step(p)
           \/ \E inv \in Invocations : start(p, inv)
           \/ \E task \in proc[p].tasks : taskEnds(p, task)
           \/ signal(p)
           \/ kill(p)
    BY <1>1 DEF NodeNext
  <2>2. CASE Step(p)
    BY <1>1, <2>2, EarlyStages, NewPartialStep, RelayStep, NetworkStep, ConsensusStep, EndSteps DEF Step
  <2> QED  BY <1>1, <2>1, <2>2, OperatorStep, TaskEndsStep, EndSteps
<1>2. ASSUME NodeInv, UNCHANGED nodeVars PROVE NodeInv'
  BY <1>2 DEF NodeInv, nodeVars
<1> QED  BY <1>1, <1>2

(***************************************************************************)
(* Every stage of every process has what the stages before it set up: the  *)
(* inductive invariant, which the three properties follow from.            *)
(***************************************************************************)
THEOREM NodeInvariant == NodeSpec => []NodeInv
  BY NodeInvInit, NodeInvNext, PTL DEF NodeSpec

\* The expect() on the collator key never fails, for any command line.
THEOREM CollatorKeyAlwaysThere == NodeSpec => []CollatorKeyThere
<1>1. NodeInv => CollatorKeyThere
  BY DEF NodeInv, Good, CollatorKeyThere
<1> QED  BY NodeInvariant, <1>1, PTL

\* Only an authority collates, for any command line, though a full node may have a key too.
THEOREM CollatorsAreAuthorities == NodeSpec => []OnlyAuthoritiesCollate
<1>1. NodeInv => OnlyAuthoritiesCollate
  BY DEF NodeInv, Good, OnlyAuthoritiesCollate
<1> QED  BY NodeInvariant, <1>1, PTL

\* A running node has all its essential tasks, or has noted that one ended.
THEOREM RunningNodesAreWhole == NodeSpec => []RunningIsWhole
<1>1. NodeInv => RunningIsWhole
  BY DEF NodeInv, Good, Spawned, RunningIsWhole, Essential, WithNetwork, WithConsensus, WithRelay, WithPartial
<1> QED  BY NodeInvariant, <1>1, PTL

------------------------------------------------------------------------------
(***************************************************************************)
(* Directories.  The databases of two processes are the same only if they  *)
(* were given a base path in common, and those of one process differ.      *)
(***************************************************************************)
Databases(p, inv) == {ParaDatabase(p, inv), RelayDatabase(p, inv)}

\* A directory is below a base path that was named, or below one of the node's own.
LEMMA DatabaseBelowPlace ==
    ASSUME NEW p, NEW inv \in Invocations, NEW dir \in Databases(p, inv)
    PROVE  \E place \in Places(inv) : IF place = None THEN dir[1] \in {"default", "tmp"} ELSE dir[1] = place
  <1>1. \A id : /\ Append(<<inv.base>>, id)[1] = inv.base
                /\ Append(<<inv.relayBase>>, id)[1] = inv.relayBase
                /\ Append(<<"tmp", p>>, id)[1] = "tmp"
                /\ Append(<<"default">>, id)[1] = "default"
                /\ Append(Append(<<inv.base>>, "polkadot"), id)[1] = inv.base
                /\ Append(Append(<<"tmp", p>>, "polkadot"), id)[1] = "tmp"
                /\ Append(Append(<<"default">>, "polkadot"), id)[1] = "default"
    OBVIOUS
  <1>2. ASSUME NEW id, dir = Append(base_path(p, inv), id) \/ dir = Append(Append(base_path(p, inv), "polkadot"), id)
        PROVE  IF inv.base = None THEN dir[1] \in {"default", "tmp"} ELSE dir[1] = inv.base
    BY <1>1, <1>2 DEF base_path
  <1>3. CASE inv.relayBase # None /\ dir = RelayDatabase(p, inv)
    BY <1>1, <1>3 DEF RelayDatabase, relay_base_path, Places
  <1>4. CASE ~(inv.relayBase # None /\ dir = RelayDatabase(p, inv))
    BY <1>2, <1>4 DEF Databases, ParaDatabase, RelayDatabase, relay_base_path, Places
  <1> QED  BY <1>3, <1>4

LEMMA SamePlace ==
    ASSUME NEW p, NEW q, NEW i \in Invocations, NEW j \in Invocations,
           NEW dir \in Databases(p, i) \cap Databases(q, j)
    PROVE  Places(i) \cap Places(j) # {}
  <1>1. PICK a \in Places(i) : IF a = None THEN dir[1] \in {"default", "tmp"} ELSE dir[1] = a
    BY DatabaseBelowPlace
  <1>2. PICK b \in Places(j) : IF b = None THEN dir[1] \in {"default", "tmp"} ELSE dir[1] = b
    BY DatabaseBelowPlace
  <1>3. a # None => a \notin {"default", "tmp"}
    BY <1>1, PathsAssumption DEF Places
  <1>4. b # None => b \notin {"default", "tmp"}
    BY <1>2, PathsAssumption DEF Places
  <1>5. a = b
    BY <1>1, <1>2, <1>3, <1>4
  <1> QED  BY <1>1, <1>2, <1>5

\* A node does not open one database twice.
LEMMA DatabasesDiffer ==
    ASSUME NEW p, NEW inv \in Invocations
    PROVE  ParaDatabase(p, inv) # RelayDatabase(p, inv)
  <1>1. PICK id : ParaDatabase(p, inv) = Append(base_path(p, inv), id) /\ id = SpecOf(inv).id
    BY DEF ParaDatabase
  <1>2. PICK rid : RelayDatabase(p, inv) = Append(relay_base_path(p, inv), rid) /\ rid = RelaySpecs[relay_chain_id(inv)]
    BY DEF RelayDatabase
  <1>3. CASE inv.relayBase = None
    BY <1>1, <1>2, <1>3 DEF relay_base_path, base_path
  <1>4. CASE inv.relayBase # None /\ inv.base = None
    <2>1. inv.relayBase \notin {"default", "tmp"}
      BY PathsAssumption
    <2> QED  BY <1>1, <1>2, <1>4, <2>1 DEF relay_base_path, base_path
  <1>5. CASE inv.relayBase # None /\ inv.base # None
    <2>1. inv.relayBase = inv.base => id # rid
      BY <1>1, <1>2, <1>5, PathsAssumption
    <2> QED  BY <1>1, <1>2, <1>5, <2>1 DEF relay_base_path, base_path
  <1> QED  BY <1>3, <1>4, <1>5

\* Without a temporary directory they depend on what run and purge-chain share.
LEMMA DatabasesOfArguments ==
    ASSUME NEW p, NEW q, NEW i, NEW j, Arguments(i) = Arguments(j), i.base # None \/ ~i.dev
    PROVE  ParaDatabase(p, i) = ParaDatabase(q, j) /\ RelayDatabase(p, i) = RelayDatabase(q, j)
  <1>1. i.chain = j.chain /\ i.dev = j.dev /\ i.base = j.base /\ i.relayChain = j.relayChain /\ i.relayBase = j.relayBase
    BY DEF Arguments
  <1> QED  BY <1>1 DEF ParaDatabase, RelayDatabase, base_path, relay_base_path, relay_chain_id, SpecOf, chain_id

------------------------------------------------------------------------------
(***************************************************************************)
(* The invariant of what a process shares with others: which of its        *)
(* databases and ports it has at each stage, and which of its directories  *)
(* a purge has removed.                                                    *)
(***************************************************************************)
BeforePartial == {"create_runner", "hwbench", "relay_config", "new_partial", "purge_para", "purge_relay"}
AllRelayPorts == {RelayPorts[k] : k \in DOMAIN RelayPorts}

HeldOpen(p, pr) ==
    /\ \A dir \in pr.open : dir \in Databases(p, pr.inv)
    /\ pr.at \in BeforePartial => pr.open = {}
    /\ pr.at = "relay_interface" => pr.open \subseteq {ParaDatabase(p, pr.inv)}

HeldPorts(pr) ==
    /\ pr.at \in BeforePartial \cup {"relay_interface", "chain_op"} => pr.ports = {}
    /\ pr.at = "build_network" => pr.ports \subseteq AllRelayPorts
    /\ pr.at = "spawn_tasks" => pr.ports \subseteq AllRelayPorts \cup {ParaPorts.p2p}

Removed(p, pr) ==
    /\ pr.at \notin {"purge_relay", "ok", "error"} => pr.removed = {}
    /\ pr.at = "purge_relay" => pr.removed = {ParaDatabase(p, pr.inv)}
    /\ pr.at = "ok" => pr.removed = {} \/ pr.removed = Databases(p, pr.inv)

TakenOK(pr) ==
    \A t \in pr.taken : ~t.own /\ (t.kind = "database" => t.places \cap Places(pr.inv) # {})

Held(p, pr) ==
    \/ pr = NoProcess
    \/ pr.inv \in Invocations /\ HeldOpen(p, pr) /\ HeldPorts(pr) /\ Removed(p, pr) /\ TakenOK(pr)

Written == \A w \in wrote : \E q \in Procs, inv \in Invocations :
               w[1] = Arguments(inv) /\ w[2] \in Databases(q, inv)

SharedInv == NodeInv /\ Written /\ \A p \in Procs : Held(p, proc[p])

------------------------------------------------------------------------------
\* A process under way was given a command line.
LEMMA LiveFacts ==
    ASSUME SharedInv, NEW p \in Procs, NEW pr, pr = proc[p], pr.at \notin {"ok", "error"}
    PROVE  /\ DOMAIN pr = Fields /\ pr.inv \in Invocations
           /\ HeldOpen(p, pr) /\ HeldPorts(pr) /\ Removed(p, pr) /\ TakenOK(pr)
  BY DEF SharedInv, NodeInv, Good, Held, NoProcess

\* A step changes one process, and perhaps what was written.
LEMMA OneHeld ==
    ASSUME SharedInv, NodeInv', Written', NEW p \in Procs, NEW pr, Held(p, pr), proc' = [proc EXCEPT ![p] = pr]
    PROVE  SharedInv'
  <1>1. ASSUME NEW q \in Procs, NEW x, x = proc'[q] PROVE Held(q, x)
    BY <1>1 DEF SharedInv, NodeInv
  <1> QED  BY <1>1 DEF SharedInv

LEMMA WrittenStays == ASSUME SharedInv, UNCHANGED wrote PROVE Written'
  BY DEF SharedInv, Written

\* A node writes to its own directories.
LEMMA WrittenGrows ==
    ASSUME SharedInv, NEW p \in Procs, NEW inv \in Invocations, NEW dir \in Databases(p, inv),
           wrote' = wrote \cup {<<Arguments(inv), dir>>}
    PROVE  Written'
  <1> SUFFICES ASSUME NEW w \in wrote'
               PROVE  \E q \in Procs, i \in Invocations : w[1] = Arguments(i) /\ w[2] \in Databases(q, i)
    BY DEF Written
  <1>1. CASE w \in wrote
    BY <1>1 DEF SharedInv, Written
  <1>2. CASE w = <<Arguments(inv), dir>>
    BY <1>2
  <1> QED  BY <1>1, <1>2

\* The end of a process, with its purge complete or none.
LEMMA EndedHeld ==
    ASSUME NEW p, NEW pr, DOMAIN pr = Fields, pr.inv \in Invocations, TakenOK(pr),
           NEW outcome \in {"ok", "error"},
           outcome = "ok" => pr.removed = {} \/ pr.removed = Databases(p, pr.inv)
    PROVE  Held(p, Ended(pr, outcome))
  <1>1. PICK new : new = Ended(pr, outcome)
    OBVIOUS
  <1>2. /\ new.at = outcome /\ new.inv = pr.inv /\ new.open = {} /\ new.ports = {}
        /\ new.taken = pr.taken /\ new.removed = pr.removed
    BY <1>1 DEF Ended, Fields
  <1> QED  BY <1>1, <1>2 DEF Held, HeldOpen, HeldPorts, Removed, TakenOK, BeforePartial

\* Whoever has a database open that p wants is another process, with a place in common.
LEMMA TakenDatabase ==
    ASSUME SharedInv, NEW p \in Procs, NEW inv \in Invocations, NEW dir \in Databases(p, inv),
           dir \notin proc[p].open, NEW t \in Taken(p, "database", DatabaseHolders(dir))
    PROVE  ~t.own /\ t.places \cap Places(inv) # {}
  <1>1. PICK q \in Procs : /\ dir \in proc[q].open
                           /\ t = [kind |-> "database", own |-> q = p, places |-> Places(proc[q].inv)]
    BY DEF Taken, DatabaseHolders
  <1>2. q # p
    BY <1>1
  <1>3. proc[q].inv \in Invocations /\ dir \in Databases(q, proc[q].inv)
    BY <1>1 DEF SharedInv, Held, HeldOpen, NoProcess
  <1>4. Places(proc[q].inv) \cap Places(inv) # {}
    BY <1>3, SamePlace
  <1> QED  BY <1>1, <1>2, <1>4

\* Whoever has a port that p wants is another process; it is no database.
LEMMA TakenPort ==
    ASSUME NEW p \in Procs, NEW ports, ports \cap proc[p].ports = {},
           NEW t \in Taken(p, "port", PortHolders(ports))
    PROVE  ~t.own /\ t.kind = "port"
  <1>1. PICK q \in Procs : /\ ports \cap proc[q].ports # {}
                           /\ t = [kind |-> "port", own |-> q = p, places |-> Places(proc[q].inv)]
    BY DEF Taken, PortHolders
  <1>2. q # p
    BY <1>1
  <1> QED  BY <1>1, <1>2

\* Listening on ports the process does not have yet.
LEMMA ListenHeld ==
    ASSUME NEW p \in Procs, NEW pr, DOMAIN pr = Fields, TakenOK(pr), NEW ports, ports \cap proc[p].ports = {},
           NEW on, on = Listen(p, pr, ports)
    PROVE  /\ DOMAIN on = Fields /\ on.at = pr.at /\ on.inv = pr.inv /\ on.open = pr.open
           /\ on.removed = pr.removed /\ on.ports \subseteq pr.ports \cup ports /\ TakenOK(on)
  <1>1. /\ DOMAIN on = Fields /\ on.at = pr.at /\ on.inv = pr.inv /\ on.open = pr.open
        /\ on.removed = pr.removed
        /\ on.ports = pr.ports \cup {n \in ports : PortHolders({n}) = {}}
        /\ on.taken = pr.taken \cup Taken(p, "port", PortHolders(ports))
    BY DEF Listen, Fields
  <1>2. TakenOK(on)
    BY <1>1, TakenPort DEF TakenOK
  <1> QED  BY <1>1, <1>2

------------------------------------------------------------------------------
\* Stages before new_partial, and the purge of the parachain.
LEMMA EarlyHeld ==
    ASSUME SharedInv, NodeInv', NEW p \in Procs,
           create_runner(p) \/ hwbench(p) \/ relay_config(p) \/ purge_para(p)
    PROVE  SharedInv'
  <1>0. PICK pr : pr = proc[p]
    OBVIOUS
  <1>1. /\ Written'
        /\ pr.at \in BeforePartial \ {"new_partial", "purge_relay"}
    BY <1>0, WrittenStays DEF create_runner, hwbench, relay_config, purge_para, BeforePartial
  <1>2. /\ DOMAIN pr = Fields /\ pr.inv \in Invocations
        /\ HeldOpen(p, pr) /\ HeldPorts(pr) /\ Removed(p, pr) /\ TakenOK(pr)
    BY <1>0, <1>1, LiveFacts DEF BeforePartial
  <1>3. ASSUME NEW stage \in BeforePartial \ {"purge_relay"}, GoOn(p, stage, proc[p]) PROVE SharedInv'
    <2>1. PICK new : new = [pr EXCEPT !.at = stage]
      OBVIOUS
    <2>2. /\ new.at = stage /\ new.inv = pr.inv /\ new.open = pr.open /\ new.ports = pr.ports
          /\ new.taken = pr.taken /\ new.removed = pr.removed
      BY <1>2, <2>1 DEF Fields
    <2>3. Held(p, new)
      BY <1>1, <1>2, <2>2 DEF Held, HeldOpen, HeldPorts, Removed, TakenOK, BeforePartial
    <2>4. proc' = [proc EXCEPT ![p] = new]
      BY <1>0, <1>3, <2>1 DEF GoOn
    <2> QED  BY <1>1, <2>3, <2>4, OneHeld
  <1>4. ASSUME NEW outcome \in {"ok", "error"}, End(p, outcome) PROVE SharedInv'
    <2>1. PICK new : new = Ended(pr, outcome)
      OBVIOUS
    <2>2. Held(p, new)
      BY <1>1, <1>2, <2>1, EndedHeld DEF Removed, BeforePartial
    <2>3. proc' = [proc EXCEPT ![p] = new]
      BY <1>0, <1>4, <2>1 DEF End
    <2> QED  BY <1>1, <2>2, <2>3, OneHeld
  <1>5. CASE create_runner(p)
    <2>1. PICK stage : stage = IF SpecOf(pr.inv) = None THEN "error" ELSE StageAfterRunner(pr.inv.subcommand)
      OBVIOUS
    <2>2. stage \in {"hwbench", "relay_config", "new_partial", "ok", "error"}
      BY <2>1 DEF StageAfterRunner
    <2>3. IF stage \in {"ok", "error"} THEN End(p, stage) ELSE GoOn(p, stage, proc[p])
      BY <1>0, <1>5, <2>1 DEF create_runner
    <2> QED  BY <1>3, <1>4, <2>2, <2>3 DEF BeforePartial
  <1>6. CASE hwbench(p)
    BY <1>3, <1>6 DEF hwbench, BeforePartial
  <1>7. CASE relay_config(p)
    BY <1>3, <1>4, <1>7 DEF relay_config, BeforePartial
  <1>8. CASE purge_para(p)
    <2>1. PICK new : new = [[pr EXCEPT !.removed = {ParaDatabase(p, pr.inv)}] EXCEPT !.at = "purge_relay"]
      OBVIOUS
    <2>2. /\ new.at = "purge_relay" /\ new.inv = pr.inv /\ new.open = pr.open /\ new.ports = pr.ports
          /\ new.taken = pr.taken /\ new.removed = {ParaDatabase(p, pr.inv)}
      BY <1>2, <2>1 DEF Fields
    <2>3. Held(p, new)
      BY <1>1, <1>2, <2>2 DEF Held, HeldOpen, HeldPorts, Removed, TakenOK, BeforePartial
    <2>4. proc' = [proc EXCEPT ![p] = new]
      BY <1>0, <1>8, <2>1 DEF GoOn, purge_para
    <2> QED  BY <1>1, <2>3, <2>4, OneHeld
  <1> QED  BY <1>5, <1>6, <1>7, <1>8

\* A database that is open elsewhere: the start ends.
LEMMA RefusedHeld ==
    ASSUME SharedInv, NodeInv', UNCHANGED wrote, NEW p \in Procs, NEW pr, pr = proc[p],
           pr.at \notin {"ok", "error"}, NEW dir \in Databases(p, pr.inv), dir \notin pr.open,
           proc' = [proc EXCEPT ![p] =
                      Ended([@ EXCEPT !.taken = Taken(p, "database", DatabaseHolders(dir))], "error")]
    PROVE  SharedInv'
  <1>1. DOMAIN pr = Fields /\ pr.inv \in Invocations
    BY LiveFacts
  <1>2. PICK held : held = [pr EXCEPT !.taken = Taken(p, "database", DatabaseHolders(dir))]
    OBVIOUS
  <1>3. DOMAIN held = Fields /\ held.inv = pr.inv /\ held.taken = Taken(p, "database", DatabaseHolders(dir))
    BY <1>1, <1>2 DEF Fields
  <1>4. TakenOK(held)
    BY <1>1, <1>3, TakenDatabase DEF TakenOK
  <1>5. PICK new : new = Ended(held, "error")
    OBVIOUS
  <1>6. Held(p, new)
    BY <1>1, <1>3, <1>4, <1>5, EndedHeld
  <1>7. proc' = [proc EXCEPT ![p] = new]
    BY <1>2, <1>5
  <1> QED  BY <1>6, <1>7, OneHeld, WrittenStays

\* new_partial opens the parachain's database.
LEMMA PartialHeld ==
    ASSUME SharedInv, NodeInv', NEW p \in Procs, new_partial(p)
    PROVE  SharedInv'
  <1>0. PICK pr : pr = proc[p] /\ pr.at = "new_partial"
    BY DEF new_partial
  <1>1. /\ DOMAIN pr = Fields /\ pr.inv \in Invocations
        /\ HeldOpen(p, pr) /\ HeldPorts(pr) /\ Removed(p, pr) /\ TakenOK(pr)
    BY <1>0, LiveFacts
  <1>2. PICK dir \in Databases(p, pr.inv) : dir = ParaDatabase(p, pr.inv)
    BY DEF Databases
  <1>3. CASE DatabaseHolders(dir) = {}
    <2>1. PICK tasks : tasks = (IF "telemetry" \in pr.inv.flags THEN {"telemetry"} ELSE {}) \cup {"txpool", "import-queue"}
      OBVIOUS
    <2>a. PICK stage : stage = IF pr.inv.subcommand = None THEN "relay_interface" ELSE "chain_op"
      OBVIOUS
    <2>b. GoOn(p, stage, [pr EXCEPT !.open = {dir}, !.tasks = tasks])
      BY <1>0, <1>2, <1>3, <2>1, <2>a DEF new_partial
    <2>2. PICK new : new = [[pr EXCEPT !.open = {dir}, !.tasks = tasks] EXCEPT !.at = stage]
      OBVIOUS
    <2>3. /\ new.at = stage /\ new.inv = pr.inv /\ new.open = {dir} /\ new.ports = pr.ports
          /\ new.taken = pr.taken /\ new.removed = pr.removed
      BY <1>1, <2>2 DEF Fields
    <2>4. Held(p, new)
      BY <1>0, <1>1, <1>2, <2>3, <2>a DEF Held, HeldOpen, HeldPorts, Removed, TakenOK, BeforePartial
    <2>5. proc' = [proc EXCEPT ![p] = new]
      BY <2>b, <2>2 DEF GoOn
    <2>6. Written'
      BY <1>0, <1>1, <1>2, <1>3, WrittenGrows DEF new_partial
    <2> QED  BY <2>4, <2>5, <2>6, OneHeld
  <1>4. CASE DatabaseHolders(dir) # {}
    <2>1. /\ UNCHANGED wrote
          /\ proc' = [proc EXCEPT ![p] =
                        Ended([@ EXCEPT !.taken = Taken(p, "database", DatabaseHolders(dir))], "error")]
      BY <1>0, <1>2, <1>4 DEF new_partial
    <2>2. dir \notin pr.open
      BY <1>0, <1>1 DEF HeldOpen, BeforePartial
    <2> QED  BY <1>0, <2>1, <2>2, RefusedHeld
  <1> QED  BY <1>3, <1>4

\* The ports of the two chains.
LEMMA PortsDiffer ==
    /\ AllRelayPorts = {30334, 9945, 9616} /\ RelayPorts.p2p = 30334
    /\ ParaPorts.p2p = 30333 /\ ParaPorts.rpc = 9944 /\ ParaPorts.prometheus = 9615
  <1>1. DOMAIN RelayPorts = {"p2p", "rpc", "prometheus"}
    BY DEF RelayPorts
  <1>2. RelayPorts["p2p"] = 30334 /\ RelayPorts["rpc"] = 9945 /\ RelayPorts["prometheus"] = 9616
    BY DEF RelayPorts
  <1>3. ParaPorts.p2p = 30333 /\ ParaPorts.rpc = 9944 /\ ParaPorts.prometheus = 9615
    BY DEF ParaPorts
  <1> QED  BY <1>1, <1>2, <1>3 DEF AllRelayPorts

\* The relay chain node opens its database, another one, and listens.
LEMMA RelayHeld ==
    ASSUME SharedInv, NodeInv', NEW p \in Procs, build_relay_chain_interface(p)
    PROVE  SharedInv'
  <1>0. PICK pr : pr = proc[p] /\ pr.at = "relay_interface"
    BY DEF build_relay_chain_interface
  <1>1. /\ DOMAIN pr = Fields /\ pr.inv \in Invocations
        /\ HeldOpen(p, pr) /\ HeldPorts(pr) /\ Removed(p, pr) /\ TakenOK(pr)
    BY <1>0, LiveFacts
  <1>2. PICK dir \in Databases(p, pr.inv) : dir = RelayDatabase(p, pr.inv)
    BY DEF Databases
  <1>3. pr.ports = {} /\ pr.removed = {} /\ dir \notin pr.open
    BY <1>0, <1>1, <1>2, DatabasesDiffer DEF HeldPorts, HeldOpen, Removed
  <1>4. ASSUME NEW held, NEW ports \in SUBSET AllRelayPorts, DOMAIN held = Fields,
               held.inv = pr.inv, held.ports = pr.ports, held.taken = pr.taken, held.removed = pr.removed,
               held.open \subseteq pr.open \cup {dir},
               GoOn(p, "build_network", Listen(p, held, ports)), Written'
        PROVE  SharedInv'
    <2>1. PICK on : on = Listen(p, held, ports)
      OBVIOUS
    <2>2. TakenOK(held) /\ ports \cap proc[p].ports = {}
      BY <1>0, <1>1, <1>3, <1>4 DEF TakenOK
    <2>3. /\ DOMAIN on = Fields /\ on.inv = pr.inv /\ on.open \subseteq pr.open \cup {dir}
          /\ on.removed = {} /\ on.ports \subseteq AllRelayPorts /\ TakenOK(on)
      BY <1>3, <1>4, <2>1, <2>2, ListenHeld
    <2>4. PICK new : new = [on EXCEPT !.at = "build_network"]
      OBVIOUS
    <2>5. /\ new.at = "build_network" /\ new.inv = on.inv /\ new.open = on.open /\ new.ports = on.ports
          /\ new.taken = on.taken /\ new.removed = on.removed
      BY <2>3, <2>4 DEF Fields
    <2>6. \A d \in new.open : d \in Databases(p, pr.inv)
      BY <1>1, <2>3, <2>5 DEF HeldOpen
    <2>7. Held(p, new)
      BY <1>1, <2>3, <2>5, <2>6 DEF Held, HeldOpen, HeldPorts, Removed, TakenOK, BeforePartial
    <2>8. proc' = [proc EXCEPT ![p] = new]
      BY <1>4, <2>1, <2>4 DEF GoOn
    <2> QED  BY <1>4, <2>7, <2>8, OneHeld
  <1>5. CASE ExternalRelay(pr.inv)
    <2>1. PICK held : held = [pr EXCEPT !.tasks = @ \cup {"relay"}, !.key = collator_key(pr.inv)]
      OBVIOUS
    <2>2. /\ DOMAIN held = Fields /\ held.inv = pr.inv /\ held.ports = pr.ports /\ held.taken = pr.taken
          /\ held.removed = pr.removed /\ held.open = pr.open
      BY <1>1, <2>1 DEF Fields
    <2>3. GoOn(p, "build_network", Listen(p, held, {RelayPorts.p2p})) /\ UNCHANGED wrote
      BY <1>0, <1>5, <2>1 DEF build_relay_chain_interface
    <2>4. {RelayPorts.p2p} \in SUBSET AllRelayPorts
      BY PortsDiffer
    <2> QED  BY <1>4, <2>2, <2>3, <2>4, WrittenStays
  <1>6. CASE ~ExternalRelay(pr.inv) /\ DatabaseHolders(dir) = {}
    <2>1. PICK held : held = [pr EXCEPT !.open = @ \cup {dir}, !.tasks = @ \cup {"relay"},
                                        !.key = collator_key(pr.inv)]
      OBVIOUS
    <2>2. /\ DOMAIN held = Fields /\ held.inv = pr.inv /\ held.ports = pr.ports /\ held.taken = pr.taken
          /\ held.removed = pr.removed /\ held.open = pr.open \cup {dir}
      BY <1>1, <2>1 DEF Fields
    <2>3. GoOn(p, "build_network", Listen(p, held, AllRelayPorts))
      BY <1>0, <1>2, <1>6, <2>1 DEF build_relay_chain_interface, AllRelayPorts
    <2>4. Written'
      BY <1>0, <1>1, <1>2, <1>6, WrittenGrows DEF build_relay_chain_interface
    <2> QED  BY <1>4, <2>2, <2>3, <2>4
  <1>7. CASE ~ExternalRelay(pr.inv) /\ DatabaseHolders(dir) # {}
    <2>1. /\ UNCHANGED wrote
          /\ proc' = [proc EXCEPT ![p] =
                        Ended([@ EXCEPT !.taken = Taken(p, "database", DatabaseHolders(dir))], "error")]
      BY <1>0, <1>2, <1>7 DEF build_relay_chain_interface
    <2> QED  BY <1>0, <1>3, <2>1, RefusedHeld
  <1> QED  BY <1>5, <1>6, <1>7

\* The parachain's ports are none of the relay chain's.
LEMMA NetworkHeld ==
    ASSUME SharedInv, NodeInv', NEW p \in Procs, build_network(p) \/ spawn_tasks(p)
    PROVE  SharedInv'
  <1>0. PICK pr : pr = proc[p] /\ pr.at \in {"build_network", "spawn_tasks"} /\ Written'
    BY WrittenStays DEF build_network, spawn_tasks
  <1>1. /\ DOMAIN pr = Fields /\ pr.inv \in Invocations
        /\ HeldOpen(p, pr) /\ HeldPorts(pr) /\ Removed(p, pr) /\ TakenOK(pr)
    BY <1>0, LiveFacts
  <1>2. ASSUME NEW held, NEW ports, NEW stage \in {"spawn_tasks", "relay_chain_tasks"},
               DOMAIN held = Fields, held.inv = pr.inv, held.ports = pr.ports, held.taken = pr.taken,
               held.removed = pr.removed, held.open = pr.open, ports \cap pr.ports = {},
               stage = "spawn_tasks" => pr.ports \cup ports \subseteq AllRelayPorts \cup {ParaPorts.p2p},
               GoOn(p, stage, Listen(p, held, ports))
        PROVE  SharedInv'
    <2>1. PICK on : on = Listen(p, held, ports)
      OBVIOUS
    <2>2. TakenOK(held) /\ ports \cap proc[p].ports = {}
      BY <1>0, <1>1, <1>2 DEF TakenOK
    <2>3. /\ DOMAIN on = Fields /\ on.inv = pr.inv /\ on.open = pr.open
          /\ on.removed = pr.removed /\ on.ports \subseteq pr.ports \cup ports /\ TakenOK(on)
      BY <1>2, <2>1, <2>2, ListenHeld
    <2>4. PICK new : new = [on EXCEPT !.at = stage]
      OBVIOUS
    <2>5. /\ new.at = stage /\ new.inv = on.inv /\ new.open = on.open /\ new.ports = on.ports
          /\ new.taken = on.taken /\ new.removed = on.removed
      BY <2>3, <2>4 DEF Fields
    <2>6. HeldPorts(new)
      BY <1>2, <2>3, <2>5 DEF HeldPorts, BeforePartial
    <2>7. Held(p, new)
      BY <1>0, <1>1, <1>2, <2>3, <2>5, <2>6 DEF Held, HeldOpen, Removed, TakenOK, BeforePartial
    <2>8. proc' = [proc EXCEPT ![p] = new]
      BY <1>2, <2>1, <2>4 DEF GoOn
    <2> QED  BY <1>0, <2>7, <2>8, OneHeld
  <1>3. CASE build_network(p)
    <2>1. pr.at = "build_network" /\ GoOn(p, "spawn_tasks", Listen(p, pr, {ParaPorts.p2p}))
      BY <1>0, <1>3 DEF build_network
    <2>2. pr.ports \subseteq AllRelayPorts
      BY <1>1, <2>1 DEF HeldPorts
    <2>3. {ParaPorts.p2p} \cap pr.ports = {}
      BY <2>2, PortsDiffer
    <2> QED  BY <1>1, <1>2, <2>1, <2>2, <2>3
  <1>4. CASE spawn_tasks(p)
    <2>1. PICK tasks : tasks = (IF "offchain-worker" \in pr.inv.flags THEN {"offchain-workers"} ELSE {}) \cup {"rpc"}
      OBVIOUS
    <2>2. PICK held : held = [pr EXCEPT !.tasks = @ \cup tasks]
      OBVIOUS
    <2>3. /\ pr.at = "spawn_tasks"
          /\ GoOn(p, "relay_chain_tasks", Listen(p, held, {ParaPorts.rpc, ParaPorts.prometheus}))
      BY <1>0, <1>4, <2>1, <2>2 DEF spawn_tasks
    <2>4. /\ DOMAIN held = Fields /\ held.inv = pr.inv /\ held.ports = pr.ports /\ held.taken = pr.taken
          /\ held.removed = pr.removed /\ held.open = pr.open
      BY <1>1, <2>2 DEF Fields
    <2>5. pr.ports \subseteq AllRelayPorts \cup {ParaPorts.p2p}
      BY <1>1, <2>3 DEF HeldPorts
    <2>6. {ParaPorts.rpc, ParaPorts.prometheus} \cap pr.ports = {}
      BY <2>5, PortsDiffer
    <2> QED  BY <1>2, <2>3, <2>4, <2>6
  <1> QED  BY <1>3, <1>4

\* Nothing shared changes hands.
LEMMA QuietHeld ==
    ASSUME SharedInv, NodeInv', UNCHANGED wrote, NEW p \in Procs, NEW pr, pr = proc[p],
           pr.at \notin {"ok", "error"}, NEW new, proc' = [proc EXCEPT ![p] = new],
           new.inv = pr.inv, new.open = pr.open, new.ports = pr.ports, new.taken = pr.taken,
           new.removed = pr.removed,
           new.at = pr.at \/ (pr.at \in WithRelay /\ new.at \in WithConsensus \cup {"panic"})
    PROVE  SharedInv'
  <1>1. /\ DOMAIN pr = Fields /\ pr.inv \in Invocations
        /\ HeldOpen(p, pr) /\ HeldPorts(pr) /\ Removed(p, pr) /\ TakenOK(pr)
    BY LiveFacts
  <1>2. HeldOpen(p, new)
    BY <1>1 DEF HeldOpen, BeforePartial, WithNetwork, WithConsensus, WithRelay
  <1>3. HeldPorts(new)
    BY <1>1 DEF HeldPorts, BeforePartial, WithNetwork, WithConsensus, WithRelay
  <1>4. Removed(p, new)
    BY <1>1 DEF Removed, WithNetwork, WithConsensus, WithRelay
  <1>5. Held(p, new)
    BY <1>1, <1>2, <1>3, <1>4 DEF Held, TakenOK
  <1> QED  BY <1>5, OneHeld, WrittenStays

LEMMA ConsensusHeld ==
    ASSUME SharedInv, NodeInv', NEW p \in Procs,
           start_relay_chain_tasks(p) \/ start_consensus(p) \/ start_network(p)
    PROVE  SharedInv'
  <1>0. PICK pr : pr = proc[p]
    OBVIOUS
  <1>1. /\ pr.at \in {"relay_chain_tasks", "start_consensus", "start_network"}
        /\ pr.at \in WithRelay
        /\ UNCHANGED wrote
    BY <1>0 DEF start_relay_chain_tasks, start_consensus, start_network, WithNetwork, WithConsensus, WithRelay
  <1>2. DOMAIN pr = Fields
    BY <1>0, <1>1, LiveFacts
  <1>3. ASSUME NEW held, DOMAIN held = Fields, held.inv = pr.inv, held.open = pr.open, held.ports = pr.ports,
               held.taken = pr.taken, held.removed = pr.removed,
               NEW stage \in WithConsensus \cup {"panic"}, GoOn(p, stage, held)
        PROVE  SharedInv'
    <2>1. PICK new : new = [held EXCEPT !.at = stage]
      OBVIOUS
    <2>2. /\ new.at = stage /\ new.inv = pr.inv /\ new.open = pr.open /\ new.ports = pr.ports
          /\ new.taken = pr.taken /\ new.removed = pr.removed
      BY <1>3, <2>1 DEF Fields
    <2>3. proc' = [proc EXCEPT ![p] = new]
      BY <1>3, <2>1 DEF GoOn
    <2> QED  BY <1>0, <1>1, <2>2, <2>3, QuietHeld
  <1>4. ASSUME NEW tasks, NEW stage \in WithConsensus, GoOn(p, stage, [pr EXCEPT !.tasks = tasks])
        PROVE  SharedInv'
    <2>1. PICK held : held = [pr EXCEPT !.tasks = tasks]
      OBVIOUS
    <2>2. /\ DOMAIN held = Fields /\ held.inv = pr.inv /\ held.open = pr.open /\ held.ports = pr.ports
          /\ held.taken = pr.taken /\ held.removed = pr.removed
      BY <1>2, <2>1 DEF Fields
    <2> QED  BY <1>3, <1>4, <2>1, <2>2
  <1>5. CASE start_relay_chain_tasks(p)
    <2>1. PICK stage \in WithConsensus : GoOn(p, stage, [pr EXCEPT !.tasks = @ \cup {"cumulus-consensus"}])
      BY <1>0, <1>5 DEF start_relay_chain_tasks, WithNetwork, WithConsensus
    <2>2. GoOn(p, stage, [pr EXCEPT !.tasks = pr.tasks \cup {"cumulus-consensus"}])
      BY <2>1
    <2> QED  BY <1>4, <2>2
  <1>6. CASE start_consensus(p)
    <2>1. GoOn(p, "start_network", [pr EXCEPT !.tasks = pr.tasks \cup {"aura"}]) \/ GoOn(p, "panic", pr)
      BY <1>0, <1>6 DEF start_consensus
    <2> QED  BY <1>2, <1>3, <1>4, <2>1 DEF WithNetwork, WithConsensus
  <1>7. CASE start_network(p)
    BY <1>0, <1>2, <1>3, <1>7 DEF start_network, WithNetwork, WithConsensus
  <1> QED  BY <1>5, <1>6, <1>7

\* The ends of a process; a purge that comes to its end has removed both databases.
LEMMA EndsHeld ==
    ASSUME SharedInv, NodeInv', NEW p \in Procs,
           chain_op(p) \/ startFails(p) \/ run_node_until_exit(p) \/ kill(p) \/ purge_relay(p)
    PROVE  SharedInv'
  <1>0. PICK pr : pr = proc[p]
    OBVIOUS
  <1>1. pr.at \notin {"ok", "error"} /\ UNCHANGED wrote
    BY <1>0 DEF chain_op, startFails, run_node_until_exit, kill, Fault, purge_relay, Live, Fallible
  <1>2. /\ DOMAIN pr = Fields /\ pr.inv \in Invocations /\ Removed(p, pr) /\ TakenOK(pr)
    BY <1>0, <1>1, LiveFacts
  <1>3. ASSUME NEW outcome \in {"ok", "error"}, End(p, outcome), outcome = "ok" => pr.removed = {}
        PROVE  SharedInv'
    <2>1. PICK new : new = Ended(pr, outcome)
      OBVIOUS
    <2>2. Held(p, new)
      BY <1>2, <1>3, <2>1, EndedHeld
    <2>3. proc' = [proc EXCEPT ![p] = new]
      BY <1>0, <1>3, <2>1 DEF End
    <2> QED  BY <1>1, <2>2, <2>3, OneHeld, WrittenStays
  <1>4. CASE startFails(p) \/ kill(p)
    BY <1>3, <1>4 DEF startFails, kill
  <1>5. CASE chain_op(p) \/ run_node_until_exit(p)
    <2>1. pr.removed = {}
      BY <1>0, <1>2, <1>5 DEF chain_op, run_node_until_exit, Removed
    <2> QED  BY <1>3, <1>5, <2>1 DEF chain_op, run_node_until_exit
  <1>6. CASE purge_relay(p)
    <2>1. PICK held : held = [pr EXCEPT !.removed = @ \cup {RelayDatabase(p, pr.inv)}]
      OBVIOUS
    <2>2. pr.at = "purge_relay" /\ proc' = [proc EXCEPT ![p] = Ended(held, "ok")]
      BY <1>0, <1>6, <2>1 DEF purge_relay
    <2>3. DOMAIN held = Fields /\ held.inv = pr.inv /\ held.taken = pr.taken /\ held.removed = Databases(p, pr.inv)
      BY <1>2, <2>1, <2>2 DEF Fields, Removed, Databases
    <2>4. PICK new : new = Ended(held, "ok")
      OBVIOUS
    <2>5. Held(p, new)
      BY <1>2, <2>3, <2>4, EndedHeld DEF TakenOK
    <2> QED  BY <1>1, <2>2, <2>4, <2>5, OneHeld, WrittenStays
  <1> QED  BY <1>4, <1>5, <1>6

\* Tasks end, signals arrive, processes start.
LEMMA OperatorHeld ==
    ASSUME SharedInv, NodeInv', NEW p \in Procs,
           \/ \E inv \in Invocations : start(p, inv)
           \/ \E task \in proc[p].tasks : taskEnds(p, task)
           \/ signal(p)
    PROVE  SharedInv'
  <1>0. PICK pr : pr = proc[p] /\ Good(pr)
    BY DEF SharedInv, NodeInv
  <1>1. ASSUME NEW inv \in Invocations, start(p, inv) PROVE SharedInv'
    <2>1. PICK new : new = [NoProcess EXCEPT !.at = "create_runner", !.inv = inv]
      OBVIOUS
    <2>2. /\ new.at = "create_runner" /\ new.inv = inv /\ new.open = {} /\ new.ports = {}
          /\ new.taken = {} /\ new.removed = {}
      BY <2>1 DEF NoProcess
    <2>3. Held(p, new)
      BY <2>2 DEF Held, HeldOpen, HeldPorts, Removed, TakenOK
    <2>4. proc' = [proc EXCEPT ![p] = new] /\ UNCHANGED wrote
      BY <1>1, <2>1 DEF start
    <2> QED  BY <2>3, <2>4, OneHeld, WrittenStays
  <1>2. ASSUME NEW task \in proc[p].tasks, taskEnds(p, task) PROVE SharedInv'
    <2>1. PICK left : left = [pr EXCEPT !.tasks = @ \ {task}]
      OBVIOUS
    <2>2. PICK new : new = [left EXCEPT !.failed = @ \/ task \in Essential]
      OBVIOUS
    <2>3. /\ DOMAIN left = Fields /\ left.at = pr.at /\ left.inv = pr.inv /\ left.open = pr.open
          /\ left.ports = pr.ports /\ left.taken = pr.taken /\ left.removed = pr.removed
      BY <1>0, <2>1 DEF Good, Fields
    <2>4. /\ new.at = pr.at /\ new.inv = pr.inv /\ new.open = pr.open
          /\ new.ports = pr.ports /\ new.taken = pr.taken /\ new.removed = pr.removed
      BY <2>2, <2>3 DEF Fields
    <2>a. UNCHANGED wrote
      BY <1>2 DEF taskEnds, Fault
    <2>b. proc' = [proc EXCEPT ![p] = [[proc[p] EXCEPT !.tasks = @ \ {task}]
                                         EXCEPT !.failed = @ \/ task \in Essential]]
      <3>1. p \in DOMAIN proc
        BY DEF SharedInv, NodeInv
      <3>2. proc' = [proc EXCEPT ![p].tasks = @ \ {task}, ![p].failed = @ \/ task \in Essential]
        BY <1>2 DEF taskEnds
      <3> QED  BY <3>1, <3>2
    <2>5. proc' = [proc EXCEPT ![p] = new]
      BY <1>0, <2>1, <2>2, <2>b
    <2>6. pr.at \notin {"ok", "error"}
      BY <1>0, <1>2 DEF Good
    <2> QED  BY <1>0, <2>4, <2>5, <2>6, <2>a, QuietHeld
  <1>3. CASE signal(p)
    <2>1. PICK new : new = [pr EXCEPT !.signalled = TRUE]
      OBVIOUS
    <2>2. /\ new.at = pr.at /\ new.inv = pr.inv /\ new.open = pr.open
          /\ new.ports = pr.ports /\ new.taken = pr.taken /\ new.removed = pr.removed
      BY <1>0, <2>1 DEF Good, Fields
    <2>3. proc' = [proc EXCEPT ![p] = new] /\ UNCHANGED wrote /\ pr.at \notin {"ok", "error"}
      BY <1>0, <1>3, <2>1 DEF signal, Live, Fault, SharedInv, NodeInv
    <2> QED  BY <1>0, <2>2, <2>3, QuietHeld
  <1> QED  BY <1>1, <1>2, <1>3

------------------------------------------------------------------------------
(***************************************************************************)
(* The second inductive invariant, from which the two properties about     *)
(* what processes share follow.                                            *)
(***************************************************************************)
THEOREM SharedInvariant == NodeSpec => []SharedInv
  <1>1. NodeInit => SharedInv
    BY NodeInvInit DEF NodeInit, SharedInv, Written, Held
  <1>2. ASSUME SharedInv, NodeNext PROVE SharedInv'
    <2>0. NodeInv'
      BY <1>2, NodeInvNext DEF SharedInv
    <2>1. PICK p \in Procs :
             \/ Step(p)
             \/ \E inv \in Invocations : start(p, inv)
             \/ \E task \in proc[p].tasks : taskEnds(p, task)
             \/ signal(p)
             \/ kill(p)
      BY <1>2 DEF NodeNext
    <2>2. CASE Step(p)
      BY <1>2, <2>0, <2>2, EarlyHeld, PartialHeld, RelayHeld, NetworkHeld, ConsensusHeld, EndsHeld DEF Step
    <2> QED  BY <1>2, <2>0, <2>1, <2>2, OperatorHeld, EndsHeld
  <1>3. ASSUME SharedInv, UNCHANGED nodeVars PROVE SharedInv'
    <2>1. NodeInv' /\ UNCHANGED <<proc, wrote>>
      BY <1>3, NodeInvNext DEF SharedInv, nodeVars
    <2> QED  BY <1>3, <2>1 DEF SharedInv, Written
  <1> QED  BY <1>1, <1>2, <1>3, PTL DEF NodeSpec

\* A node never waits for a port or a database of its own, and a database it finds open
\* belongs to a process with a base path in common, for any command lines.
THEOREM NeverInItsOwnWay == NodeSpec => []NotInItsOwnWay
  <1>1. SharedInv => NotInItsOwnWay
    BY DEF SharedInv, Held, TakenOK, NotInItsOwnWay, NoProcess
  <1> QED  BY SharedInvariant, <1>1, PTL

\* purge-chain removes all that a node with the same arguments has written, and nothing of
\* another place, for any command lines.
THEOREM PurgeMatchesRun == NodeSpec => []PurgedWhatRunWrote
  <1>1. ASSUME SharedInv PROVE PurgedWhatRunWrote
    <2> SUFFICES ASSUME NEW p \in Procs, proc[p].at = "ok", proc[p].removed # {}, NEW w \in wrote
                 PROVE  /\ w[1] = Arguments(proc[p].inv) /\ (w[1].base # None \/ ~w[1].dev)
                              => w[2] \in proc[p].removed
                        /\ w[2] \in proc[p].removed => Places(w[1]) \cap Places(proc[p].inv) # {}
      BY DEF PurgedWhatRunWrote
    <2>1. PICK inv \in Invocations : inv = proc[p].inv /\ proc[p].removed = Databases(p, inv)
      BY <1>1 DEF SharedInv, Held, NoProcess, Removed
    <2>2. PICK q \in Procs, i \in Invocations : w[1] = Arguments(i) /\ w[2] \in Databases(q, i)
      BY <1>1 DEF SharedInv, Written
    <2>3. w[1].base = i.base /\ w[1].dev = i.dev /\ Places(w[1]) = Places(i)
      BY <2>2 DEF Arguments, Places
    <2>4. ASSUME w[1] = Arguments(inv), w[1].base # None \/ ~w[1].dev PROVE w[2] \in Databases(p, inv)
      <3>1. Arguments(i) = Arguments(inv) /\ (i.base # None \/ ~i.dev)
        BY <2>2, <2>3, <2>4
      <3>2. ParaDatabase(q, i) = ParaDatabase(p, inv) /\ RelayDatabase(q, i) = RelayDatabase(p, inv)
        BY <3>1, DatabasesOfArguments
      <3> QED  BY <2>2, <3>2 DEF Databases
    <2>5. ASSUME w[2] \in Databases(p, inv) PROVE Places(i) \cap Places(inv) # {}
      BY <2>2, <2>5, SamePlace
    <2> QED  BY <2>1, <2>3, <2>4, <2>5
  <1> QED  BY SharedInvariant, <1>1, PTL

=============================================================================
