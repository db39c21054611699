# qosm in TLA+

`qosm` gives network traffic a priority. It keeps rules (addresses, domains and
services with a priority) and interface settings (rate, percentages of three
classes) in a SQLite database, and puts them into effect in two places of the
kernel: named sets of an nftables table, whose marking rules look packets up in
them, and an HTB qdisc on every enabled interface, whose filters read the marks.
Nothing spans these places: no transaction, no lock. This directory models what
that does to the rules, to the table and its sets, to the interfaces and their
qdiscs, to requests that pass through the daemon, and to the packets in the end;
it checks the models with TLC and proves most of what they promise with TLAPS.

## 1. Inventory

| Component | State it keeps | Operations | What is hard about it | What makes it correct |
|---|---|---|---|---|
| Rules manager (`internal/qos/manager.go`, `host_rules_mgmt.go`, `service_rules_mgmt.go`, `dns_refresh.go`) | local variables of one operation | add, delete by id or name, flush, restore, refresh of domains | kernel first, database second, element by element; other operations in between; crash in between | kernel and database agree on every element that nothing disturbed; a domain's addresses are one DNS answer |
| Rule tables (`internal/db`) | `iprules`, `domainrules` + `domainips`, `servicerules` | one SQL statement at a time, INSERT OR IGNORE | several statements without a transaction | a target has one rule, a rule is not replaced in place, ids are not reused |
| nftables sets (`internal/core/nft/nft_sets.go`, `nft.go`) | elements of the sets per priority, set of interfaces; the queue of a connection | add, delete, flush, list | overlapping intervals are refused, missing elements are errors, loops end at the first error; goroutines share a connection whose Flush sends everybody's changes; ends of intervals are exclusive | nothing stays queued; answers are true; of two networks in a set none contains the other; what is listed is what was added |
| nftables table (`internal/core/nft/nft_core.go`) | table, 7 sets, 3 chains, 6 marking rules each | look up, else create | several processes at once; errors that are dropped | order of the rules, sets before rules, completeness, no unbounded copies |
| Interface manager (`internal/qos/iface_mgmt.go`, `stats.go`, `internal/db/interface_table.go`) | rows of `interfaces`; the map `Ifaces` | enable, disable, rate, percentages, restore, reload, statistics | four places per interface; goroutines share the map; three UPDATEs for the percentages | qdisc, set, row agree on an interface that nothing disturbed |
| HTB (`internal/core/htb`) | root, four classes, two filters of a qdisc | create, find, delete, counters | creation is seven requests that are not undone and not locked; rates are truncated, bursts wrap | a complete qdisc divides its rate and starves no class; a half-made one has a reason |
| Marking and classing of packets (`nft_core.go`, `htb_core.go`) | the order of rules and chains, the marks | what the kernel does with a packet | two chains per forwarded packet; two address families; sets that change under a packet | a packet gets the class of a rule that it has |
| Daemon (`internal/daemon`, client side `internal/qos/helpers.go`) | the socket file, one connection | seven requests | one after the other; clients die or stall; restarts; signals in the middle of a handler | a request is executed at most once, its own outcome is its answer, every client is answered |
| CLI (`cmd`) and web server (`web`) | processes and goroutines | call the managers | they overlap | - |
| Settings, logs, login, sessions, pages, protocol buffers | - | - | - | not modelled, see section 8 |

A CLI process opens the database, fills its own `Ifaces`, sets up the table and
runs one operation. The web server does this once, restores rules and interfaces,
and then runs one goroutine per request on the same manager. With
`--daemon-mode` the kernel's half of an operation is a message to the daemon over
a Unix socket; the database's half stays with the client.

`PROJECT.json` lists every component, the hazards with their lines, and what each
definition models.

## 2. Plan

Done, in this order:

1. `QosRules` (rules, the core), `RuleBook` (what the database promises) and the
   refinement between them; `QosRulesProofs`.
2. `NftSetup` and `NftSetupProofs`.
3. `IfaceTc` and `IfaceTcProofs`.
4. `NftSets` with `IpBits`: changes of the named sets, shared connections, and the
   bytes of the intervals; `NftSetsProofs`.
5. `HtbQdisc`, its abstract view `QdiscLife`, and `HtbQdiscProofs`.
6. `DaemonRpc`, its abstract view `Rpc`, and `DaemonRpcProofs`.
7. `Datapath`: what all of this does to a packet; `DatapathProofs`.

8. `QosRulesInv`, the invariant behind the agreement of kernel and database, and
   `QosRulesSync`, the proof that it is inductive, with `InSync`, `DomainIPsExact`
   and `RestoreCovers`.
9. `CopiesBounded`, in `NftSetupProofs`.
10. `IfaceTcInv`, the same for the interfaces, and `IfaceInSync` in `IfaceTcProofs`.
11. `QdiscLife` over several interfaces, with operations that take a qdisc away and
    make one, other tools and reboots; that `HtbQdisc` implements it, and that `IfaceTc`
    does.
12. `NftListing`: `ReadBack`, and the functions on bytes proved for every width.
13. The safety half of `OpTerminates`: `OperationsAdvance` and `DaemonAttends`.

What is left to do is in section 8.

## 3. Modules

| Module | What it is |
|---|---|
| `QosRules` | the rules manager, its three tables, the sets, and the daemon as far as it serialises requests |
| `RuleBook` | abstract: what a reader of the database may rely on |
| `QosRulesInv` | the inductive invariant behind agreement: who is where owns what |
| `MCQosRules` | small instances for `Rules*.cfg` |
| `QosRulesProofs` | types, shape of rows and operations, that operations go forward, refinement of `RuleBook` |
| `QosRulesSync` | proof that kernel and database agree, and that a restore restores |
| `NftSetup` | set-up of table, sets, chains and rules, with its inductive invariant |
| `MCNftSetup`, `NftSetupProofs` | instances for `SetupRace.cfg`, proofs |
| `NftSets` | changes of the named sets over connections that callers share |
| `IpBits` | prefixes read back from the bytes of an interval |
| `NftListing` | what the sets list, read back from their elements |
| `MCNftSets`, `NftSetsProofs` | instances for `NftSets.cfg`, proofs |
| `IfaceTc` | interfaces: qdisc, nftables set, row, map of the web server |
| `IfaceTcInv` | the inductive invariant behind agreement: what the operation alone on an interface has made |
| `MCIfaceTc`, `IfaceTcProofs` | instances for `Iface*.cfg`, proofs |
| `HtbQdisc` | one qdisc, piece by piece, and the arithmetic of its rates |
| `QdiscLife` | abstract: none, a root, whole or mixed; who may make, complete and take away a qdisc |
| `MCHtbQdisc`, `HtbQdiscProofs` | instances for `HtbQdisc.cfg`, proofs |
| `DaemonRpc` | clients, the socket file, connections, daemon processes |
| `Rpc` | abstract: a remote call that is executed at most once |
| `MCDaemonRpc`, `DaemonRpcProofs` | instances for `DaemonRpc.cfg`, proofs |
| `Datapath` | a packet between the rules of the chains and the classes of a qdisc |
| `MCDatapath`, `DatapathProofs` | instances for `Datapath*.cfg`, proofs |

How they fit together: `QosRules` and `IfaceTc` are the operations a user asks for.
A request of theirs to the kernel takes a set or a qdisc from one state to the
next in one step or two; `NftSets` and `HtbQdisc` are what happens in such a
request. `QdiscLife` is the interface between `HtbQdisc` and `IfaceTc`, and both
implement it: `HtbQdisc` for one interface, with a request per piece, and `IfaceTc`
for all of them, with whole operations; so the two have the same view of what
processes do to each other's qdiscs. Where they have the daemon between
them and the kernel, they rely on what `Rpc` says of it: executed once or not at
all, and the execution may outlive its client (`Orphan`). `NftSetup` makes the
rules and chains, in the order that `Datapath` assumes.

### QosRules

State: `nft` (per priority, the elements in the kernel's sets), `rules` (the row
of each target: id, priority, addresses), `nextId` (AUTOINCREMENT), and for every
client the place `pc` and local variables `job` of its operation; `serving` is
the client whose request the daemon executes. `touch` and `tainted` are history:
what an operation in flight concerns, and what was spoiled by operations that
overlapped, were cut short, failed, or took a shared address away.

| Code | Actions |
|---|---|
| `AddIPRule`, `AddServiceRule`, `AddDomainRule` | `BeginAdd`, `AddToSet`* / `AddRejected`, `AddDone`, `InsertRow`, and for domains `ReadRow`, `InsertIP`*, `IPsDone` |
| `Delete*ByID`, `Delete*ByName` | `BeginDelete`, `RemoveFromSet`* / `RemoveMissing`, `RemoveDone`, `DropRow` |
| `DeleteAllRules` | `BeginFlush`, `FlushSets`, `FlushDomainRules`, `FlushIPRules`, `FlushServiceRules` |
| `RestoreRules` | `BeginRestore`, `RestoreReadDomains`, `AddToSet`*, `RestoreHighDone`, `RestoreHostsDone`, `RestoreReadServices`, `RestoreDone` |
| `RefreshAllDomains`, `clearOldIPs`, `addNewIPs` | `BeginRefresh`, `Resolve`, `RemoveFromSet`*, `ClearIPs`, `AddToSet`*, `ReadRow`, `InsertIP`*, `RefreshDone` |
| the daemon's accept loop | `Accept`, `Released`, `OrphanDone` |
| kill, SQLITE_BUSY, failed lookup, restart of the daemon | `Abort`; `Orphan` for a client that dies after its request was written; `Reboot` |

Abstractions. The three tables have the same statements and are one function. The
rows of `domainips` are the field `ips` of their domain's row, so that addresses
inserted for an id that is gone vanish with it. The kernel's intervals are the
relation `Overlap`. DNS is the constant `Answers`. The writes to the log table
are left out: nothing reads them to decide. A refresh is reached in daemon mode
only, because `refresh-dns` creates its manager without a classifier.
Operations on rules run after the set-up of `NftSetup`, so sets exist.

### RuleBook

Per target an id and a priority. `Add` only to an absent target and with a fresh
id, `Remove`, and `Flush` of one table. `RulesAreABook` says that `QosRules`,
seen through `Visible`, implements it.

### NftSetup

State: `table`, `sets`, `chains`, `rules` of the kernel (a chain is a sequence of
rule numbers), and for every process the object it is `at` and whether its lookup
was `missing` it. One netlink request is one action: `Lookup`, `LookupRule`,
`Create`. `After` is the order of `NewNFTCtx`: table, sets, then chain by chain
with its rules. Two things of the code are easy to miss and are modelled as they
are: `lookupQosRule` returns an error for a rule that is there, and `initChains`
drops every error of `initRules`; so `LookupRule` leaves the chain as soon as it
finds a rule, and `RuleFails` goes on with the next chain. `Abort` is a failure of
any other request, or a kill. In the code rules 1 to 3 mark high priority and 4
to 6 low.

### IfaceTc

State: `qdisc` (none, a root, whole with rate and percentages, or mixed), `ifset` (the
nftables set), `row` (database), `web` (the map `Ifaces` of the web server; a CLI
process has its own, loaded when it starts, in `job.entry`), `pc`, `job`,
`serving`. `clean` is history: the interfaces for which qosm answers.

| Code | Actions |
|---|---|
| `EnableTcOnInterface` | `AskEnable`, `Enter`, `Look`, `Find`, `AddRoot`, `AddClasses`, `Mark`, `SaveRow`, `Note` |
| `DisableTcOnInterface` | `AskDisable`, `Enter`, `Flush`, `Unmark`, `SaveOff`, `Note` |
| `ChangeInterfaceRate` | `AskRate`, `Enter`, `Flush` (`Unmark` in daemon mode), `Find`, `AddRoot`, `AddClasses` (`Mark` in daemon mode), `SaveRate`, `Note` |
| `ChangeClassPercentages` | `AskSplit`, the same, then `SaveHigh`, `SaveDflt`, `SaveLow`, `Note` |
| `RestoreInterfaceStates` | `AskRestore` or `WebStart`, `NextIface`, `Look` .. `SaveRow`, `RestoreDone`; `WebExit` if the web server's fails |
| `GetIfaceStats`, `RefreshInterfaces` | `AskStats`, `Note`; `AskReload`, `Fill` |
| failures | `Abort`, `RequestFails`, `AnswerLost`, `Orphan`, `WebStop`, `Alter` (tc and nft by hand), `Reboot` |

`Refused` is what the operations make of a request that ends in an error. Enable
fails, and restore passes over `ErrQdiscExists`. A change whose new qdisc is not
created ignores `ErrQdiscExists` in direct mode and every error in daemon mode, since
the next assignment to `err` overwrites it; the error of its request to disable it
does check. `DisableTcOnInterface` over the daemon checks none (`iface_mgmt.go:117`,
`131`): whether the daemon is down, its handler fails (`RequestFails`) or its
answer is lost (`AnswerLost`), `Overlook` goes on to `SaveOff`, which stores the row
as disabled. `job.err` remembers it; qosm does not answer for what such a command
leaves (`Settles`). A restore over the daemon, in contrast, ends with the first error.

Abstractions. Classes and filters are added in one step after the root, which is
what `QdiscLife` sees of them: `AddClasses` for who works alone, and
`AddClassesMixed` for who has met somebody. A demand that leaves a class without
a rate (`Starves`) fails there and leaves its root behind. Finding and
deleting the root of a flush is one step, and so is reading the set and
deleting from it. The checks of a web page are made when the request begins and
the entry of the map is read again when the manager's method begins, as in the
code. The statistics' write of the entry they have read, and the reload, concern
the map only. The death of the server by two goroutines that write one Go map at
once is an instance of `WebStop`. A failed lookup of interfaces is an `Abort`.

### NftSets, IpBits and NftListing

State: `elems` (the sets of the kernel), `tx` (the batch that the kernel evaluates
under its lock), `queue` (what each connection has queued), and per caller the
request `job`, where it is `at`, what it was `said`, and what it has `asked` since
its last Flush (history). `ConnOf` gives the goroutines of the web server one
connection and everybody else their own.

| Code | Actions |
|---|---|
| `addIPsToIPSet`, `deleteIPsFromIPSet` | `Begin`, then for each prefix `Refuse` or `Queue`, `Send` or `FlushNothing`, `Evaluate`, `Answer` |
| `addServicesToServiceSet`, `deleteServicesFromServiceSet`, the same for interfaces | `Begin`, `Read` (what is missing is not deleted), `Refuse` (a name that is too long), `Queue`, ... |
| `FlushAllRules` | one `Queue` per set, then one `Send` |
| the library's Flush and the kernel | `Send` takes the whole queue; `Evaluate` one change after the other, going on after an error; `Answer` commits all or nothing |
| failures | `SendFails`, `AnswerLost`, `Crash` with `NobodyListens` |

An address is a number. `ipIntervalEnd` is translated as it is: the next address
for a host, the last one for a network, although ends are exclusive. `IpBits` has
the functions on bytes (`mask`, `commonPrefixLen`, `reconstructNftIPRange`), with
the number of bytes and of their bits as parameters; `NetworksReadBack` compares
them with arithmetic for every prefix of the width. TLC evaluates it for the width
of the run, and the theorem `BytesCorrect` has it for all. `NftListing` puts the two
together: `Listed` is what `getIPSetElements` makes of an element, and `ReadBack`
what a list is worth. A host at the highest address is refused: the address after
it, its exclusive end, is none. The library's queue and the kernel are external.

### HtbQdisc and QdiscLife

State: `root`, `class` (the demand each class was made for), `filter`; per process
the piece it is `at` and its demand `want`. `alone` and `flawed` are history: who
has met nobody since it began, and a root that has met a failure or a race.

| Code | Actions |
|---|---|
| `InitHTBOnIface`, `CreateQdisc` | `AskCreate`, `Find` (with `Verify` and the check for zero), `AddRoot`, `AddClass` four times, `AddFilter` twice, in the order of `After` |
| `FlushQdiscFromIface` | `AskFlush`, `FindOld`, `Delete` |
| a failing request, a kill | `Abort`: nothing is undone |

`ClassRate`, `bytesPerSecFromMBsPerSec` and `calcBurst` are the arithmetic of
`vars.go`: truncation to whole Mb/s, the cap of a uint32, the product that wraps.
The sizes are parameters.

`QdiscLife` has, per interface, a qdisc that is none, a root, whole with a demand,
or mixed, and per process the interfaces it is at work on (`scope`), the demand it
works for (`aim`) and whether it has met nobody there (`alone`). A root is made only
where there is none, by who has a demand; a root is completed, by who is alone as it
demands; who takes a qdisc away has no demand. `Interfere` is another tool, `Stop`
the end of processes, which leave what they have made, and `Reboot` the host's.
`HtbQdisc` is seen through `Seen`: a qdisc is whole when `GetQdisc` would find all
its pieces and they are of one demand, mixed when they are all there and of two. In
`IfaceTc` an operation has the demand of its rate and percentages from `Find` to
`AddClasses`, and none before: a change of rate takes a qdisc away and makes one.

### DaemonRpc and Rpc

State: `path` (who has bound the socket file), `up`, `backlog`, `serves` and `step`
of each daemon process, `at`, `peer`, `wrote`, `answered` and `said` of each client,
`fate` of each request, and `stalled` clients.

| Code | Actions |
|---|---|
| `sendRequestToDaemon` | `Dial`, `Write` (length), `Write` (body), `Receive` |
| `New`, `Run` | `Start` (removes the socket file), `Listen`, `Accept` |
| `handleConnection` | `Read` of length and of body, `Execute`, `Executed`, `Answer` twice, the second with `Close` |
| signal handler | `CleanUp` (removes the socket file at its path), `Exit` wherever the main loop is |
| failures | `Kill`, `Die`, `Stall` and `GoOn` |

What a request does is the subject of the other modules; here it is `asked`,
`running`, `done` or `failed`. `Rpc` has nothing of sockets: a request is begun at
most once, what the client is told is what happened, or that the daemon is lost,
and after that the request is not begun any more.

### Datapath

State: the `sets` of each level, the `enabled` and `shaped` interfaces, the `order`
of the two forward chains, and the packet with the `chain` and `rule` it is at, its
`mark` and its `class`. `Arrive`, `Evaluate` (one rule of `initRules`), `Enqueue`
(the filters of `addFilters`), `Leave`; `Change` is any step of the other modules
that it can notice. A packet has a family, two ends and its interfaces. The kernel
is external; that chains of one hook and priority have an order that nobody has
chosen is a choice of `Init`.

## 4. Properties

Besides one type invariant per module:

- `InSync` (invariant): kernel and database agree on every element, at both
  priorities, that no operation in flight concerns and that was not spoiled. An
  operation spoils what it shares with one it overlaps, what it concerns when it
  fails or dies, and an address that it takes away from a second rule; a flush
  that runs alone makes a fresh start, and so does a reboot for what no rule claims.
- `DomainIPsExact` (invariant): the addresses stored for an undisturbed domain are
  exactly one answer of the resolver, through adds and refreshes.
- `RestoreCovers` (action property): when restore returns success, everything the
  database claims is in the kernel.
- `RulesAreABook` (refinement): the database is a `RuleBook`.
- `OperationsAdvance` (action property): no operation goes in circles. Each step of its
  own ends it or leaves it fewer domains to refresh, a later stage, or fewer elements in
  the same stage (`Nearer`), and no step of another takes it back.
- `DaemonAttends` (invariant): the daemon is busy only for a client that still waits for
  its request.
- `OpTerminates` (liveness): every operation returns.
- `RulesInOrder`, `RulesHaveSets`, `CopiesBounded`, `SettledComplete` (invariants
  of the set-up): in front of a rule stand all the rules that precede it, so low
  priority is never evaluated before high; a rule is there only with its sets; a
  race installs a rule at most once per process, and later set-ups add nothing;
  without a failure since boot the table is complete when all are done.
- `NothingLeftQueued` (invariant): what is queued belongs to a caller that is still
  to flush; nobody returns and leaves a change for a later Flush to send.
- `NestedOnlyAtLast` (invariant): of two networks in a set none contains the other,
  with the exceptions that exclusive ends make: the host at the last address of a
  network, and a network of two addresses, which is one element with its first host.
- `AnswersTrue` (action property): who has a connection of its own is told the
  truth: success, "already a subnet or supernet", a missing element. Who shares
  one is not: its change may be sent, and its error received, by another.
- `ReadBack` (invariant): what the sets list is what was added.
- `IfaceInSync` (invariant): qdisc, membership of the set and row agree on an
  interface for which qosm answers and which nobody is working on. An interface
  is lost by overlap, interruption, a request or statement that fails, a copy of the
  entry that is not the row's, or a demand that starves a class. It is won back by an
  enable or disable that nobody meets and none of whose requests fails. The last
  condition is needed: a failed disable over the daemon is stored all the same.
- `LivesByQdisc` (refinement): whatever operations, failures, other tools and reboots
  do, each step on the qdiscs is one of `QdiscLife`, on an interface of the operation's
  own.
- `QdiscDivides` (invariant, whatever happens): a complete qdisc has percentages
  that add up and no class without a rate.
- `RatesFit`, `HalfMadeByFailure` (invariants of the qdisc): the classes share the
  rate, lose less than 3 Mb/s of it by rounding, and none starves; a half-made
  qdisc has met a failure, a race, or a demand that starves a class.
- `LivesAsOne` (refinement): seven unlocked requests are a `QdiscLife`.
- `IsRemoteCall` (refinement): sockets, messages and failures are an `Rpc`.
- `SocketFileTrue` (invariant): as long as daemons do not overlap, the socket file
  leads to the daemon that listens, and a stopped one leaves none.
- `AnsweredUnlessHeld` (liveness): whoever asks is answered, unless a stopped client
  holds the daemon for ever in the middle of a request, which has no deadline.
- `FollowsRules` (invariant): the class of an IPv4 packet is the verdict of its chain,
  of one of its two chains when it is forwarded.
- `NoneUndeserved` (invariant): sets that change under a packet give it no class
  that no rule had for it at any time on its way.

## 5. Runs

| Run | Instance | States | Shows |
|---|---|---|---|
| `rules_serial` | 1 direct client; 2 hosts, a net over one of them, 1 service, 1 domain; 1 fault, 1 reboot | 414 thousand | every operation in sequence, also after being cut short: `InSync`, `DomainIPsExact`, `RestoreCovers` |
| `rules_refresh` | 1 direct and 1 daemon client; 1 domain whose answer moves between 2 hosts; 2 rows | 1.1 million | every overlap of two operations: `InSync`, `DomainIPsExact`, `RulesAreABook` |
| `rules_daemon` | 2 daemon clients; host and overlapping net, 1 domain; 1 fault; fairness | 158 thousand | `InSync`, `DaemonAttends`, `OperationsAdvance`, `OpTerminates` |
| `setup_race` | 3 processes, 1 set, 2 chains, 3 rules each, 1 fault per boot, reboots | 674 thousand | the four invariants of the set-up |
| `nft_sets` | 2 goroutines on one connection, a command on its own; a network, its half, its last host; addresses of 6 bits; 1 fault | 1.3 million | `NothingLeftQueued`, `NestedOnlyAtLast`, `AnswersTrue`, `ReadBack` |
| `iface_mixed` | a command over the daemon and one goroutine in direct mode; rates 1 and 100; 2 faults | 1.3 million | `IfaceInSync`, `QdiscDivides`, `LivesByQdisc` |
| `iface_web` | 2 goroutines in direct mode; two splits; no fault | 601 thousand | `IfaceInSync` with a shared map and torn percentages |
| `htb_qdisc` | 3 processes; demands that lose by rounding, starve a class, or do not add up; 1 fault | 116 thousand | `RatesFit`, `HalfMadeByFailure`, `LivesAsOne` |
| `daemon_rpc` | 2 clients, 2 daemon processes, 2 faults; fairness | 240 thousand | `SocketFileTrue`, `IsRemoteCall`, `AnsweredUnlessHeld` |
| `datapath` | 2 addresses, 2 services, 2 interfaces; a local packet of each family, a forwarded one; 1 change on the way | 839 thousand | `FollowsRules`, `NoneUndeserved` |

What the agreements do not say. `InSync`, `DomainIPsExact` and `IfaceInSync` speak of
elements, domains and interfaces that nothing has spoiled. That an overlap or a crash
between a kernel request and its statement leaves kernel and database apart is what the
code does, and no property denies it: the properties say that the harm stays with what
those operations had in common, and which operation mends it. In the same way
`SocketFileTrue` is about daemons that do not overlap, and `AnswersTrue` about
success told to a caller with its own connection. The hazards say so one by one.

Runs that TLC must find violated; each states what the repository says of the
program:

| Run | The claim | What happens |
|---|---|---|
| `rules_shared` (`QosmKeepsSync`) | rules get out of sync by a reboot or by changes "externally without using qosm" (`cmd/restore_cmd.go:15`) | a host rule and a domain rule share an address; deleting one takes it from the kernel for both |
| `datapath_v6` (`EveryFamilyFollows`) | "Traffic can be matched using: IP addresses (IPv4 and IPv6)" (`README.md:11-13`) | the filters that read the mark are for `ETH_P_IP` (`htb_core.go:265`): a marked IPv6 packet goes to the default class |

Other places where code and words part, met while modelling and present in the
models' behaviours, without a run of their own:

- A restore is rejected when, after a reboot, a network was added over a host that
  the database still has: the two never fit into the kernel together
  (`nft_sets.go:94`; `cmd/restore_cmd.go:14-15` says that restore brings back all).
- A chain whose set-up failed behind its first rule is never completed, although
  objects are created "if they are not present" (`nft_core.go:433`, `types.go:14`).
- Restore skips an interface that has its qdisc and has left the nftables set
  (`iface_mgmt.go:263`).
- Over the daemon, a change of rate that is refused has torn the qdisc down and
  reports success (`iface_mgmt.go:176`).
- Over the daemon, a disable that fails reports "Successfully disabled the HTB qdisc"
  (`cmd/iface_cmd.go:172`) and stores the row as disabled, while qdisc and element of the
  set remain (`iface_mgmt.go:117`, `131`). A later restore passes over the interface.
- "allow a burst worth of 5ms" (`vars.go:103`) is not true above 6871 Mb/s: the
  product wraps. The theorem `BurstExact` has the exact bound.

### Bounds

`Wanted` are the targets for which rules are asked, `MaxId` the rows ever
inserted, `MaxFaults` and `MaxReboots` failures and reboots, `MaxChanges` the
changes while one packet is on its way, `Asks` the requests a caller of the sets
may make. Two clients are enough for every pair of overlapping operations; three
would add overlaps in which the third only spoils more. Two hosts are enough for
an address that is in the old answer of a domain and not in the new one; the net
is there for refused intervals. Two rows are enough to delete a rule, add it again
and meet a stale id. One fault is enough to leave one operation half done; the
operations that follow find what it left. In `setup_race` three processes let two
stand behind a third that has skipped a chain; a set-up is the same for each chain
and each rule, and two chains and three rules have a first, a last and a middle
one. `IfaceTc` has one interface in its runs because no operation relates two of
them but restore, which treats them one by one.

In `nft_sets` two bytes of three bits have prefixes that end within a byte, at one
and across two; the instance has a network, a half of it, its last host, and an
address that is not a network's first. Three callers are needed for a change that
is sent by somebody else while the kernel is at work for a third. In `htb_qdisc`
sizes are in units of 8 bytes, so that the largest product stays within TLC's 32-bit
integers; no demand of the run comes near the cap at 34359 Mb/s. Three processes are
one that creates, one that deletes under it, and one that creates again; they
are what it takes to mix a qdisc. In `daemon_rpc` two faults let a client stall and
a daemon be restarted meanwhile, and two daemons overlap. In `datapath` one change
falls at every place of a packet's way, and packets follow each other, so that all
sets are reached.

Symmetry is used for processes and goroutines in runs of invariants and action
properties, never under liveness.

### Fairness

`rules_daemon` assumes weak fairness of a client's next kernel or database step (a
running process goes on), and strong fairness of `Accept` (the listening socket's
queue is served in order, so a waiting client's turn comes although `serving` is
set in between). Requests and faults are not fair. Without a daemon that returns
to its accept loop after every error, `OpTerminates` fails: its mutant is a daemon
that does not.

`daemon_rpc` looks closer, with a backlog per daemon in the order of arrival, and
needs weak fairness only: of `ClientStep` of each client and `DaemonStep` of each
daemon, because processes that are not stopped run. Nobody has to dial, to start a
daemon, or to go on when stopped. With a stalled client the property says exactly
what is left: its mutant, a daemon that does not notice the end of a connection,
is caught.

## 6. Proofs

All theorems are for any sets of clients, targets, interfaces, processes, callers,
prefixes, demands, daemons and packets and for any bounds, from the assumptions
named in the modules (`RulesAssumption`, `SetupAssumption`, `IfaceAssumption`,
`SetsAssumption`, `AsksAssumption`, `BitsAssumption`, `PrefixAssumption`, `HtbAssumption`, `RpcAssumption`,
`DatapathAssumption`): disjoint kinds of targets, a symmetric overlap, prefixes that
are disjoint or nested, finitely many processes, natural bounds, that "no row" is not
a row, and that typed prefixes are networks of the width. TLC evaluates each assumption in a run.

- `QosRulesProofs`. `StaticCorrect` proves `Static`, which is inductive: types,
  `RowShape` (an id below `nextId`, an absent row is `NoRow`, a host's row claims
  the host) and `Shape` of every client (which operation is where, with what in
  its local variables, and that it touches no more than it says). Types alone are
  not inductive: that `InsertRow` has a target needs `Place` and `Reach`.
  `TypeCorrect` and `BookRefined` follow; in the latter every statement on the
  database is a step of the rule book or a stutter, and `RowShape` is what makes
  the id of `InsertRow` fresh and the row of `DropRow` present. `AdvanceCorrect`
  (`OperationsAdvance`) needs `Place`: a refresh that clears addresses goes on to
  `kadd`, which comes late in its course and early in a restore's. `AttendsCorrect`
  (`DaemonAttends`) is inductive with the types. Together they are what safety can say
  about termination: a request blocks nobody after it has ended, and an operation with
  finitely many domains and elements before it has finitely many steps to take.
- `QosRulesSync`. The invariant `IInv` of `QosRulesInv` is about ownership: what two
  operations in flight both touch is tainted (`NoClash`), so an operation whose
  targets are not tainted has them to itself and knows them from its own program
  counter. `Cover` says that the addresses of a row belong to whoever works on the
  row, `Rows` what the row looks like at each point, `Phase` for each element
  whether kernel and row agree or which of them is ahead. The lemmas come in two
  families: a step keeps what its own operation knows, and it leaves alone what the
  others own. `OwnershipCorrect` proves `IInv`; `SyncCorrect` (`InSync`) and
  `AddressesCorrect` (`DomainIPsExact`, from `Exact`) follow. `RestoreAlone` is about
  one client: if from some moment on nobody else is at work, a restore that it then
  begins and that succeeds has brought back all the database claims, whatever was
  cut short or lost before. `RestoreCorrect` is the case of a single client, the one
  `rules_serial` checks. Without the condition it is not true: a restore reads
  the tables one after the other, and a rule added or deleted meanwhile may be missed.
- `NftSetupProofs`. The invariant `IInv` adds to the properties what a process
  knows from where it is (`KnownAt`: whoever is at rule r of a chain has seen the
  rules before it) and, as long as nothing failed, `Undisturbed`: a chain that has
  begun to fill either is full or has somebody at a rule that is missing
  (`Underway`). This is needed because a process that finds a rule leaves the
  chain to whoever is creating it. From it: `OrderCorrect`, `SetsCorrect`,
  `CompleteCorrect`, `TypeCorrect`. `CopiesCorrect` (`CopiesBounded`) needs counting:
  the copies of a rule and the processes that looked for it in vain and are about to
  install it (`Pending`) are together never more than the processes
  (`CopiesPromised`), because a process looks for a rule once and does not find it
  only while there is no copy.
- `IfaceTcProofs`. `QdiscDivides` becomes inductive with `Verified` (whoever is
  about to create root or classes has a rate and a split that were verified, in
  variables nobody else writes) and `Named` (an operation has its interface).
  `TypeCorrect` includes that the daemon serves only who waits for it.
  `IfaceSyncCorrect` (`IfaceInSync`) follows from `SyncInv` of `IfaceTcInv`, proved
  as `SyncInductive`: an interface for which qosm answers is in step, or one operation
  alone, with no error overlooked, is at work on it (`Apart`), and then the program counter says what it has made
  in the kernel (`Made`) and how kernel, set of interfaces and row relate (`Phase`).
  `Bound` says which operation can be where. A request that fails, in whichever way the
  operation takes it, gives its interface up (`FailedRequest`), and so an overlooked
  error never reaches `Settles`. A step of one
  operation is nobody else's business as long as it stays within its interfaces (`Local`);
  a reboot, an end of the daemon or an administrator takes the interfaces it hits out
  of what qosm answers for (`Disturbed`).
  It is here that "no row" must differ from every row. `LifeCorrect` (`LivesByQdisc`)
  takes both invariants: a step of an operation goes on with its work or leaves it
  (`LifeGoes`), and who is at a request is at work on the interface (`LifeAt`, from
  `Bound`), so that making, completing and removing happen within a scope only.
- `NftSetsProofs`. `IInv` says that elements of a set and of the batch's working
  copy do not overlap (`Apart`), that what is queued or sent adds one network at a
  time, and, for a caller that has its connection to itself (`AloneAt`), that its
  queue, then the batch, is what it asked for and that each change was evaluated or
  is still to be. From it `TypeCorrect`, `NothingLeftCorrect`, `NestedCorrect` (with
  the geometry of prefixes in `NestedApart`) and `AnswersCorrect`: an action
  property, since "missing" and "overlaps" speak of the sets the kernel leaves.
  `BytesCorrect` is about the loops over bytes and bits, which are recursive functions:
  the powers of two, the digits of an address and the length of a common prefix are
  proved by a least counterexample (`Least`, from the well-foundedness of the
  naturals), because the library's induction theorems take an operator. From it and
  from the invariant that elements come from typed prefixes follows `ReadBackCorrect`.
  `NetworksNest` shows that networks of any lengths nest, which is what
  `SetsAssumption` asks of prefixes.
- `HtbQdiscProofs`. `RatesFit` is inductive with `Verified` demands; for
  `HalfMadeByFailure` one needs that who works alone has made exactly the pieces
  before the one it is at (`OwnOnly`, `Undisturbed`). `LifeCorrect` maps every step
  to one of `QdiscLife`; the last filter is its `Complete`, and that it leaves what
  was demanded when nobody was met is `Undisturbed` again. `BurstExact` says
  from which rate on the burst is wrong.
- `DaemonRpcProofs`. `IInv` ties together where a client is, what was written and
  read of its connection, in whose hands it is, and how far its request has come
  (`ClientSound`, `ConnectionSound`); `OneRuns` and `SocketFileTrue` are inductive
  together. `RemoteCallCorrect` maps `Gone`, which ends all connections of a daemon,
  to `Forget`.
- `DatapathProofs`. `MarkSound`: the rules before the next one do not match, and the
  mark is the verdict of a chain that was passed. It holds while nothing changes;
  `FollowsCorrect` follows from it, `UndeservedCorrect` from the history alone.

Every inductive invariant was checked by TLC before it was proved: `IInv` of
`QosRulesInv` on the complete state spaces of its runs, and `SyncInv` also with two
interfaces and with three clients and the daemon, where the runs have fewer.

Model-checked only: `OpTerminates` and `AnsweredUnlessHeld`, because liveness under
fairness is out of the prover's reach. Of `OpTerminates` that leaves two things: that a
step is possible whenever an operation is in flight (`ENABLED`), and that it is taken.

## 7. Mutants

Every property of a passing run has a mutant in the module of its model (marked
as such), a plausible slip in the code: a forgotten flush, INSERT OR REPLACE for
INSERT OR IGNORE, an error that is overlooked, a loop that ends early or late, a
rule compared with another name, a loop that does not move on, rates that are rounded up, the last address as
the end of every interval, a root that replaces another one, a socket file that is left behind, an answer that is
tried again, rules in the order of their keys. Each makes TLC find its property
violated.

## 8. Not modelled

- Percentages with fractions: they are float32 in the code, and what sums of them
  round to decides whether a split is accepted. Percentages are naturals here.
- Which connection of the SQLite pool a statement gets (the cascade of
  `PRAGMA foreign_keys`): rows and addresses go together in the model. Ids are not
  used again, so addresses that outlive their rule are never read.
- The text of a rule: it is found by what the user types and stored as the prefix
  it is parsed to. Names are values here.
- Settings: one row of text that no modelled operation reads.
- Login, PAM and sessions, logs, pages, printing, parsing of arguments and
  configuration, generated protocol buffers: no state the properties tell apart.
- The kernel's scheduling of packets between the classes of a qdisc, and nftables and
  netlink beyond what qosm reads and writes.
