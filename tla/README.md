# Verification of ressrf

ressrf decides which network destinations a program may talk to. A policy is
built from CIDR ranges, URL rules, header rules and protocol rules; protocol
modules (TCP, SSH, HTTP) put it between the caller and the network; bindings
carry the same engine to Go, Node and Python, and a second engine is written in
Go. This directory holds TLA+ models of that code, the TLC runs that check them
on small instances, and TLAPS proofs for every value of the constants.

Paths are relative to the repository's root.

## Layout

| module | what it is | code |
|---|---|---|
| `Cidr` | ranges: parsing, normalisation, masks, membership | `crates/ressrf-core/src/cidr.rs`, `ip_ranges.rs` |
| `UrlRules` | URL rules: globs, regexes, rulesets | `crates/ressrf-core/src/url_rules.rs` |
| `PolicyEngine` | builder, build, questions to a frozen policy | `crates/ressrf-core/src/policy.rs` |
| `PolicyPromise` | abstract policy: sets of addresses, no ranges | what `policy.rs` promises |
| `GoPolicyEngine` | the native Go engine, in step with the Rust one | `go-native/ressrf/internal/engine/{policy,cidr,url_rules}.go` |
| `HostText` | what a host's text is taken for | `cidr.rs` (`is_ip_literal`, `is_ambiguous_ip`), `uri_validator.rs` |
| `UriValidator` | the ordered checks of a URL's text | `crates/ressrf-core/src/uri_validator.rs` |
| `ServiceRanges` | longest-prefix table of cloud services | `crates/ressrf-core/src/service_ranges.rs` |
| `SafeConnector` | resolve once, filter, dial in order, one budget | `crates/ressrf-tcp/src/{connector,resolver}.rs` |
| `PinnedDial` | abstract connect: dial only what was pinned | what the connector promises |
| `RedirectValidator` | hop counter shared by request chains | `crates/ressrf-http/src/redirect.rs` |
| `HttpClient` | layer, redirect hook and connector together | `crates/ressrf-http/src/layer.rs` and the two above |
| `WasmAbi` | the guest: handles, audit flag, blocks | `crates/ressrf-wasm/src/lib.rs` |
| `WasmHost` | a host of one thread with re-entrant callbacks | `node/src/wasm.ts` and the guest |
| `GoHost` | goroutines, two mutexes and `Close` over the guest | `go/ressrf/{policy,wasm}.go` and the guest |
| `SshDial` | connect and handshake under deadline and context | `go-native/ressrf/sshx/dial.go` |
| `MC*` | instances for TLC, with one `.cfg` per question | |
| `*Proofs` | theorems and their proofs (eight modules) | |

`PROJECT.json` maps each definition to the lines it stands for, and lists runs,
mutants, findings, hazards and theorems. To use it:

    tlc -workers 2 -config MCSafeConnector_calls.cfg MCSafeConnector
    tlapm SafeConnectorProofs.tla

## The system

Each part below: its state, its operations, what it talks to, what is hard, and
what makes it correct. The parts that are not modelled are here too.

**CIDR ranges** (`ressrf-core/cidr.rs`, `ip_ranges.rs`). State: an ordered list of
ranges, each with network, prefix, mask, original text and tier. Operations:
strict and loose parsing, membership, first match, `is_ambiguous_ip`. Hard: two
families in one 128-bit space, masks that cut an octet, prefixes at 0 and at the
full length. Correct if a range covers exactly the addresses that share its
first bits.

**URL rules** (`url_rules.rs`). State: allow and deny rules as given, and
compiled. Operations: add, compile, evaluate. Hard: the priority of deny, allow
and bypass; `**` that backtracks; a regex that silences the other fields of its
rule. Correct if a verdict is the one a declarative reading of the rules gives.

**Policy engine** (`policy.rs`, `audit.rs`). State: preset, deny and allow
ranges, header, protocol and URL rules, names of cloud modules, audit sink;
immutable after `build()`. Operations: the builder calls, `build`, `try_build`,
six questions. Every other part asks it. Hard: any number of builder calls in
any order, texts that are skipped, defaults appended at the end, lists with
several addresses. Correct if the decision on an address is the one the
caller's texts call for, and each entry point decides alike.

**URI validator** (`uri_validator.rs`). State: trusted and denied domain suffixes
and one switch, set by builder calls. Operations: those calls, `validate_url`
(scheme, userinfo, port, ambiguous host, suffixes, literal host against the
policy, in this order), `is_trusted_domain`. Used by the redirect validator, the
WASM guest and the HTTP layer. Hard: texts that a resolver reads as an address
and a parser does not; trailing dots, letter case, a suffix at a label's edge.
Correct if a URL that passes was judged by each check on its real host.

**Service ranges** (`service_ranges.rs`). State: a longest-prefix table of
service names. Operations: `load_all` from files, `load_from_file`, `load`,
`merge`, lookup. No decision reads it. Hard: `load` inserts in the order of a
`HashMap`; a file that is missing, bad, or fails after others were loaded.
Correct if a lookup gives a service that lists the address, the closest one.

**Safe TCP connector and resolver** (`ressrf-tcp`). State: per call, the host,
the start of its budget, the kept addresses, the last error; nothing is shared.
Operations: `connect`, `connect_addr`, `connect_addr_str`, `resolve`,
`validate_ip`. Talks to the policy, DNS, the network and tokio's timer. Hard:
check and use are separated by awaits; the timer races the connect; the budget
began before the lookup. Correct if it dials only the addresses it checked, in
order, within the budget, and returns.

**SSH connector** (`ressrf-ssh`). Wraps the TCP connector; reads the peer's
address afterwards.

**Redirect validator** (`ressrf-http/redirect.rs`). State: one atomic counter.
Operations: `new`, `clone`, `reset`, `validate_hop`. Called by the HTTP client's
redirect hook, from as many chains as run. Hard: chains that overlap, a missing
reset, clones, the wrap of the `u32`. Correct if no counter grants more than
`max_redirects`, and a chain is refused for hops of its own only.

**HTTP layer** (`ressrf-http/layer.rs`). `SsrfService` checks the scheme
and literal hosts, and leaves names to the inner service's connector. Correct
only together with the connector and the redirect validator.

**WASM boundary** (`ressrf-wasm`). State: a table of policies by handle, an audit
flag, buffers handed across. Hard: handles that only grow, the flag read when a
policy is made, ownership of buffers.

**Go over WASM** (`go/ressrf`). State: a runtime, one policy handle and two
mutexes. Hard: `Close` takes neither mutex. Correct if each goroutine gets the
verdict on its own request, and none after `Close`.

**Native Go engine** (`go-native/ressrf`). State: a builder of texts, then sets of
prefixes, rules and a sink behind a mutex. A second engine that must decide as
the first does. Hard: the two differ in when they parse, in the order of the
ranges and in how they compare addresses; the sink is called with `sinkMu` held.

**Native Go protocols** (`tcpx`, `httpx`, `sshx`). `sshx` races a deadline, a
context's callback, a handshake and a goroutine of the SSH library over one
socket. Correct if an error leaves no socket and a client that is returned is
left alone.

**Node and Python bindings and protocols.** The check resolves a name; some
adapters let the library resolve it again, dial one address only, or set the
timeout per address.

**Cloud data, tracing sink, generated tables, test vectors, fuzzers, scripts.**
Data, log formatting and tools.

How the modelled parts meet: the connector takes the policy as the set
`Allowed` of addresses that pass. That is all it needs, because
`PolicyEngineProofs!ListDecidedByAddress` shows that a list passes exactly when
each of its addresses passes alone, and the resolver asks address by address.
The redirect validator takes the verdict of the URI and scheme checks on a
target as the set `Accepted`; `HttpClient` says what that set is and puts the
layer and the connector around it. The WASM models take a policy as a table of
what it decides.

## The models

### Cidr, UrlRules, PolicyEngine

An address is a tuple of octets; how many octets, and of how many bits, are
constants (8, 16, 4 and 2 in the program). A text is a record: the form it is
written in, the address and the prefix. Only form `canonical` parses; the other
forms are the parser's rejections. Masks, host bits, the move of IPv4 into
the mapped space and the first match are modelled as the code computes them. An
octet is the set of its one-bits, so AND is an intersection. `RefCovers` is the
reference: an address as one string of bits, and a prefix of it; it knows no
octets, masks or lists.

A path pattern is matched as the code does, segment by segment, `**` with no
segment or with one more (`GlobMatchPath`, a recursive function of the two
positions); `RefPathMatch` is the reference: some cut of the path into pieces, one
per segment of the pattern.

One record `cfg` stands for `PolicyBuilder` and then for `Policy`, which hold the
same fields; `phase` says which. Each builder method is an action; `Build` does
all that `build()` does (defaults, compilation, audit event); `BuildFails` is its
panic or the `Err` of `try_build`. `Ask...` are the questions: they change
`answer` and nothing else. `calls` is a history of what the caller passed, read
by properties only.

`PolicyPromise` says the same with two sets of addresses that only grow, an
arbitrary decision of the rules, and a last step that may add the shipped
addresses. `PolicyEngine` maps its lists to the sets of addresses they match.

Hosts come classified (address, ambiguous, name), which is what `HostText`
models, and URLs come split. A regex is the set of URLs it matches.

### GoPolicyEngine

The Go builder beside the Rust one: an action is one call on both, or one
question to both policies. The Go builder keeps texts and `GoBuild` parses them
all behind the shipped ranges; `GoBuildFails` is the error for a text that does
not parse, after which there is no Go policy. A provider's name is lower-cased
(`ToLower`) and an unknown one is passed over, as in the match of
`ressrf_policy_new` on the Rust side; one step adds one name of the variadic call.
The Rust match knows lower-case names only, but the public Go API hands over no
other (`go-native/ressrf/policy.go:14`). The code of the two differs and so
do the models: Rust masks octets and compares them, Go compares the first bits
of `netip` prefixes (`Within`, `SharesBits`). The glob functions are the same code in both languages and
one operator stands for both. `DenyPrefixes` is the list that callers turn into
block lists of their own. A question emits its event to the Go sink.

### HostText and UriValidator

A text is a sequence of tokens: marks, and words of which the code asks only
what their characters are (a table `Words` in the instance; no word is a mark,
`WordsAssumption`). The checks are a
sequence of records, each with a guard and a reason, and the verdict is the
first that objects. The properties compare it with a URL put together from its
RFC 3986 pieces (`UrlAssumption` says what each piece may be): `PassMeansJudged`
says what a pass implies about the real host, `PlainUrlPasses` that nothing
ordinary is refused (`Plain` leaves out prohibited characters, a name made of
numbers, and an encoded "@" behind a backslash, where the check for userinfo
still looks), `AddressTextIsRecognised` that
a host `inet_aton` would read as an address is refused or judged as one.

### ServiceRanges

`load_all` goes file by file (`SkipMissing`, `ReadFile`, `FailFile`), later loads
and merges add to the table; `load` takes the services of a file in any order.
`OwnerIsTheClosestListing` states what a lookup may say in terms of the texts
alone, `LoadAllIsWhole` that a table has all files or there is none.

### SafeConnector

An action is the code between two awaits. `Connect` runs to the first await;
`DnsAnswer` and `DnsFailure` are the lookup's return with the filter that
follows; `TryNext` is a turn of the loop up to the TCP connect; `DialOk`,
`DialError`, `DialTimeout` end that await; `GiveUp` leaves the loop. `Tick` lets
time pass anywhere. At and after the deadline either the connect or the timer
may win. `dialled` and `lookups` are histories.

`PinnedDial` has no names, lookups or time: a call fixes a set of allowed
addresses at most once and dials only those.

### RedirectValidator

The counter, modulo `Modulus`; `ValidateHop` is the whole of `validate_hop` with
the hook that follows or stops. `Serial` is the set of validators that are
used as `reset()` asks (before each chain, one chain at a time), because the
type's own example never resets; of a validator outside it, chains may overlap
and reset or not. `asked` and `granted` are histories.

### HttpClient

A chain is a request through `SsrfService`, redirects through the hook, and a
connect for every hop. Names are resolved anew at each connect. The layer sees a
request once and the hook sees texts only, so what neither can judge is left to
the connector; the properties say that nothing else is left, and that every
connection was judged. A connect is one step, because `SafeConnector` implements
`PinnedDial`.

### WasmAbi, WasmHost, GoHost

`WasmAbi` has the guest's state and one operator per exported function.
`WasmHost` is a host of one thread: a call writes its input, runs the guest, reads
and frees the result; a build with a sink stops in the host's audit callback,
which may make calls, builds included. `frames` are the calls in progress. A
configuration may fail to decode, or its regexes to compile: `build()` then panics
and the guest traps.

Inputs are never freed by either side, as in the code, and memory runs out. Each
allocation needs one block of its own. Without one the host sees the null pointer
of its input and makes no call (`WriteFails`); inside a call the guest either
traps in an allocation of its own (`GuestTraps`), or gets the null pointer for its
result, which `serialize_result` does not look at: the answer is written and read
at address 0 and belongs to no block (`ResultPtrs`). Both models
go through these calls: what is read there is still the call's own answer
(`AllowedByItsPolicy`, `AnswerIsOwn`), since no other call comes in between.

`GoHost` has goroutines in place of callbacks: each call takes
the policy's mutex, the instance's, writes, calls, reads and releases; `Close`
comes between any two steps. wazero is external: a call into or across a close is
an error. `torn` would say that two goroutines were inside the guest.

### SshDial

`Dial` step by step: the nil configuration and the policy (`Refused`), connect, set
the deadline, watch the context, handshake, stop the context's callback, clear
the deadline. Beside it run the context, the callback that closes
the socket, the peer, the clock, and the mux loop `ssh.NewClientConn` leaves.
The deadline may pass after the handshake and before it is taken off; the mux
loop then ends, and `Dial` returns a client whose connection is already closed.
`ClientIsLeftAlone` says that this is the only way it can be.

## What the runs show

| run | shows |
|---|---|
| `verdicts` | after any two builder calls, each of 68 addresses is decided as the bits of the caller's texts say (`VerdictKeepsCallerIntent`); lists decide as their addresses (`ListIsConjunction`); a denial names a range of the first offender, the caller's before a shipped one (`DenialNamesTheFirstOffender`); requests pass as a declarative reading of globs, bypass and regexes says (`UrlVerdictPromise`) |
| `promise` | the engine implements `PolicyPromise`; no call both opens and closes addresses; freezing changes no verdict (`CallsMoveOneWay`) |
| `parity` | after the same three calls Go and Rust decide every address, URL and asked list alike and report the same policy; Go gives no policy exactly where Rust skipped a text (`EnginesAgree`); `DenyPrefixes` covers what the deny set covers, each prefix valid in its family (`DenyPrefixesTellTheSet`) |
| `checks` | over combinations of URL pieces, suffix lists and policies: what a pass means, what must pass, which texts are addresses; denying a suffix opens no URL, and trusting one more closes none (`CallsMoveOneWay`) |
| `load` | a lookup gives the closest listing of the last load that has it, whatever the order of services; `load_all` gives all or nothing |
| `calls` | a connect call dials its one answer in order and skips none; dials nothing past the budget; reports what happened; returns; implements `PinnedDial` |
| `hops` | a whole client with a serial and a shared validator: budgets of redirects, refusals that are earned, every connection of every hop judged, only names left to the connector, a redirect loop ends |
| `handles` | callbacks that build, ask and free, until memory runs out: a handle keeps its policy, an "allowed" is that policy's, events pair up with policies, no block is lost or shared |
| `goroutines` | two goroutines, `Close`, and memory that runs out: each gets the answer to its own request, none after `Close`, every call returns |
| `dial` | the returned client is left alone, no error leaves a socket, errors name their cause, one budget for all phases, `Dial` and the mux loop end |

Two runs end in a violation, where a text of the repository and its code
disagree:

| run | the text | the code |
|---|---|---|
| `each` | `crates/ressrf-tcp/src/connector.rs:73`, "each validated address is tried" | two addresses pass; the first stays silent for the two ticks of the budget, the second is never dialled |
| `noreset` | `crates/ressrf-http/README.md:18`, "Per-request" state machine | the counter is the validator's and the example never resets it: hops of earlier requests count |

Smaller differences met while modelling, in which the model follows the code:

- `policy.rs:315` "For `None`: always allowed": an empty list is refused first (317).
- `audit.rs:9` events "at each decision point": one event, at build (`policy.rs:234`).
  The Go engine does emit one per decision.
- `ssrf_e2e.rs:79` "must reject the entire set": the resolver drops the denied
  addresses and dials the others (`resolver.rs:70`).
- `redirect.rs:93` reset before each chain: with overlapping chains the reset of
  one gives another more hops. The limits per chain hold for serial use only.
- `policy.go:247` of the Go engine "matches `is_network_allowed`": it allows alike,
  but puts the shipped ranges first and Rust puts them last, so the range a denial
  names can differ. `EnginesAgree` compares reasons, not ranges.
- `cidr.go:14` of the Go engine "rejects ... host bits set in the network portion":
  `Addr.Prefix` masks them first (65), so the test behind it (70) finds none. Rust
  passes over such a shipped text. The shipped lists have none.
- `cloud.go:28` of the Go engine: names "are case-sensitive lowercase to match the
  Rust side"; `AddCloudProviderDenies` lower-cases them first (`policy.go:107`).
- A text that does not parse: an error of `Build` in Go, skipped in Rust
  (`policy.rs:104`). `Build`'s comment calls a skipped deny text the failure the
  library exists to prevent.
- `HACKING.md:318` ends a WASM call with "free the allocation": the result is
  freed, the block of the input is freed by neither side.
- `crates/ressrf-wasm/src/lib.rs:401` "ptr is freshly allocated with sufficient size":
  `ressrf_alloc` may have returned null, and nothing has looked (400). The hosts do
  look behind their inputs (`node/src/wasm.ts:55`, `go/ressrf/wasm.go:113`).
- `crates/ressrf-wasm/src/lib.rs:358` says the host frees the event; the guest does.
- `crates/ressrf-wasm/src/lib.rs:251` lists the structural checks between the rules
  and the IP check that a rule may bypass: the bypass skips both (274).
- `layer.rs:56`: a bracketed IPv6 host is no literal to the layer; the connector
  judges it.

Deadlock is checked in `checks`, `handles`, `goroutines`, `hops`
and `noreset`, whose systems go on for ever. The others set `CHECK_DEADLOCK FALSE`:
their calls return and nothing more need happen (`calls`, `each`, `dial`), the
bound on calls is reached (`load`, `parity`), or a build failed (`verdicts`,
`promise`, `parity`).

`verdicts` sets a VIEW without the last answer: none of its invariants reads the
answer, so states that differ in it alone are one.

## Bounds

- **`MaxCalls`.** A property of the lists needs at most two calls to break:
  one that adds, one that would take back or reorder. `verdicts` and `promise` have
  two, `parity` three (deny, allow, rule). Each call passes up to two texts, so
  four ranges of the caller meet the shipped ones. The proofs have no such bound
  beyond `MaxCalls \in Nat`. `load` has four: up to three files, and loads and merges behind them.
- **`MaxEvents = 2`** (`parity`). The policy's event and one decision.
- **Addresses.** Octets of two bits, three per IPv6 address, one per IPv4 address
  behind one octet of ones: prefixes on, before and after each octet boundary,
  and IPv6 ranges that contain, cut or miss the mapped space. In `promise` and
  `parity`, two octets. All addresses are decided, not samples. Texts shipped with
  host bits are in `verdicts` only: `GoAssumption` excludes them where both engines
  run, since Go would mask such a text and Rust pass over it.
- **URL texts** (`checks`). Words of every kind the code tells apart, hosts of one
  to five labels, at most three suffixes (`MaxSuffixes`), one of them a bracketed
  address. The proofs hold for any words, pieces and suffixes.
- **URLs.** Three hosts of two and three labels, paths of zero to three segments, seven rules.
- **`Calls = {c1}`.** Calls share only the clock and time may pass before and
  within each call, so one call meets every environment. The proofs hold for
  any set of calls.
- **`Timeouts = {0, 2}`, `MaxClock = 4`.** No budget, and one of two ticks that a
  lookup or a first address may use partly, wholly or beyond. A call starts only
  if its budget ends by `MaxClock`.
- **Provider names** (`parity`). The known one, the same in capitals, and an unknown one.
- **`Answers`.** Empty, all denied, mixed, with a duplicate, and a single address.
- **`each`.** A budget of two ticks, answers of two different addresses that pass, and
  peers that never answer (`MCPairs`, `SilentSpec`).
- **`MaxRedirects = 2`, `Modulus = 4`.** The counter wraps two calls after its
  limit. History counts stop at `CapAsked` and `CapGranted`, past which no
  property tells counts apart. Two validators, one of them serial, two chains.
  Targets are names and literals, of which one passes and others are denied.
- **`MaxHandles = 3`, `MaxDepth = 2`, four blocks.** A build inside the callback of
  a build, a handle freed before a later one is made, and memory that runs out
  before an input, an event and a result.
- **Two goroutines, three blocks.** The configuration, a first input and its result;
  a second input, which leaves no block for its result; then none at all. The
  mutexes have no more roles than holder and waiter; the proofs hold for any number.
- **`Timeouts = {1, 2}`, `MaxClock = 4`** (`dial`). Every phase before, at and after
  the deadline.

## Fairness

- `SafeConnector`: time goes on (`Tick`), the executor polls a future that is
  ready (`Loop`), timers fire (`DialTimeout`). DNS and the peers owe nothing, so
  `AnswerIsEventuallyGiven` starts at the end of the lookup: the code puts the
  lookup under no timer.
- `HttpClient`: a chain goes on (`GoOn`): a connect ends, by its own timer if by
  nothing else, and a server answers each request, by a redirect or not. Without
  the latter a chain waits for its server for ever; no timer of these modules
  ends it. `RedirectLoopEnds` is about serial validators: elsewhere another
  chain's reset can keep a loop going.
- `GoHost`: goroutines run (weak fairness on each step). Taking the policy's mutex
  is strongly fair: other callers release and take it again and again, and
  `sync.Mutex` hands itself to a waiter after 1 ms (its starvation mode). The
  instance's mutex needs only weak fairness, as one goroutine at a time asks.
- `SshDial`: the clock and the timers of the connect and the deadline, the runtime
  that starts the callback's goroutine, `Dial`'s own steps, and the mux loop as a
  goroutine. The peer, the network and the context owe nothing.
- The engines, the URI validator, the service ranges and `WasmHost` have no
  liveness: their operations return.

## Proofs

No proof takes anything on trust but the named assumptions, which TLC evaluates.

**`PolicyEngineProofs`, the operators.** What the operators of `Cidr` and `UrlRules` compute, for any
widths. `MaskBits` says which bits `ComputeMask` sets, by division with remainder;
`Place` numbers the bits of an address, and each number is the place of one bit
(`PlaceUnique`, `PlaceExists`); so membership by masks is agreement on a first
stretch of bits (`ContainsBits`), which is what a text means (`RangeCovers`).
`KeepAtIs` says that the loops over texts keep the ones that parse, in order, and
`GlobMatchPathIs` that the glob matcher finds a match exactly where a cut of the
path exists (`CutEnds` and `CutBegins` take a cut apart and put it together;
`TableTells` goes through the pairs of positions, from the end).

The prover takes no theorem with an operator as a parameter, and that includes
the library's induction. Induction is therefore on sets: the set of naturals for
which a claim holds contains 0 and successors (`AllNat`), or the set of those for
which it fails has no least element (`LeastNat`). A function defined by recursion
is first shown to exist (`KeepLoop`, `LoadLoop`), in the same way.

**`PolicyEngineProofs`, the Rust engine.** `TypeCorrect`; `ListDecidedByAddress`
and `HostsDecidedLikeAddresses`, which follow from the verdict operators by lemmas
on lists (`OnePasses`, `NetworkPasses`) and hold for any ranges;
`BuilderMovesOneWay`, from the lemma that a concatenation covers what its parts
cover (`InSetConcat`) and one on what build adds (`FinalisedCovers`);
`EngineImplementsPromise`, step by step: a builder call maps to `Deny`, `Allow` or
`ChangeRules`, build to `Freeze`, questions to `Decide` or `DecideOther`.
`RulesReady` says that the rules of a built policy are compiled, so that compiling
them again (as the mapping does, to give a builder's rules a meaning before build)
changes no decision; with it, `UrlRulesDecideRequests` is a matter of operators.
`VerdictIsTheCallers` and `DenialNamesTheOffender` are not inductive: nothing in
them ties the ranges of the policy to the texts of the history. `ListsKeepCalls`
does: the allow list covers what the texts to allow cover, and the deny list is a
list of the caller's, each range of it faithful to its text (`Faithful`) and of no
shipped tier, which covers what the texts to deny cover, with the shipped ranges
behind it once `build` has run and the preset asks for them.
Assumed: `CidrAssumption` on the octets, and `CallerAssumption`, the types of what
the caller passes. That texts parse to ranges is proved.

**`PolicyEngineProofs`, the two engines.** `EnginesDecideAlike` and
`DenyPrefixesBlockTheSame`. `SideBySide` says what the engines have in common at
each step, although one keeps ranges and the other texts: the Rust lists are the
ranges of the Go builder's texts that parse, and preset, modules, rules and sink
are the same (`SameCalls`); when Rust has built, Go has too if its texts parse and
has refused if not, its policy is what `GoBuilt` makes of those texts, and the
first event of each is that of its policy (`SamePhase`); the last answers agree
(`SameAnswer`). That the same text gives the same range on
either side is `GoParsesIs` and the lemmas on masks: a `netip` prefix
compares the bits that the mask keeps. For `DenyPrefixesTellTheSet`, `NativeIs`
shows that a prefix taken back to IPv4 covers what it covered: a masked range that
reads as mapped has all the bits in front of the IPv4 part within its prefix
(`MappedPrefix`): its last octet in front is all ones, and behind the prefix
nothing is left. Assumed besides: `GoAssumption` (an octet of ones in
front of a mapped address, shipped texts that parse).

**`SafeConnectorProofs`.** `TypeCorrect`, `DialsInOrder`, `BudgetIsKept`,
`OutcomesTellWhatHappened`, `ConnectorImplementsPinnedDial`. The properties are not inductive: that no
allowed position is skipped depends on where the loop is. `CallsInv` adds, per
call, `Stage` (`kept` is always `Kept(answer)`; which lookups, cursor, last error
and outcome go with which `pc`) and `Dials` (the dialled positions are kept ones, in
increasing order, none skipped before another, each before the deadline; while
the budget lasts, every kept position up to the cursor was dialled). The last
clause carries the order past positions that are skipped for lack of budget: time
only moves on, so nothing is dialled after such a skip. `Reports` adds what each
outcome has behind it: an address that answered, a last error, all addresses
tried, or a budget that is over. Assumed:
`ConnectorAssumption`, the types of answers, budgets and clock.

**`HttpClientProofs`.** First the redirect validator alone: `TypeCorrect`;
`BudgetIsKept` for any use, from `CounterCounts`: below the wrap a counter equals
the calls `asked` since its reset and `granted` is at most that, so no grant is
made past the limit; `SerialChainIsBounded` and `SerialChainEarnsItsRefusal` for the
documented use (validators in `Serial`: every chain resets, no overlap), from `OwnCounter`:
the one chain that runs has followed as many redirects as its counter counts.
Then the client: `ClientUsesValidator`, each step of the client is a step of
`RedirectValidator` or none, so `ClientKeepsBudget`, `ClientChainIsBounded` and
`ClientChainEarnsItsRefusal` follow. `HopsAreJudged` and `NamesAreLeft` from
`HInv`: what a hop that waits for its connect was let through with, and where one
that is open arrived. Assumed: `RedirectAssumption`, and `HttpAssumption`, by which
`Accepted` is what the hook accepts.

**`WasmHostProofs`.** `HandlesKeepTheirPolicy`, `BlocksAreFreed`,
`AnswersComeFromTheirPolicy`, `EventsArePaired`, for any configurations, memory
and depth of callbacks. `IInv` is `Table` (the history of policies made and the
guest's vector have the same length and agree entry by entry) and `Calls` (each
call in progress owns the blocks its stage says, and no other does). On it stand
`AnswerIsEarned`, which binds an answer to the entry of its handle, and `Counted`,
which counts announced policies and builds that wait for their callback. Several
calls never share an answer at the null pointer, as nothing comes between the
guest's write and the host's read. Assumed: `PtrAssumption` (no block is at the null
pointer).

**`GoHostProofs`.** `AnswersAreOwn`, `ClosedPolicyAllowsNothing`, `NeverTorn`, for
any goroutines. `IInv`: who is past the second mutex holds both (`Locked`) and is
alone, its blocks are its own (`OwnBlocks`), no policy exists before `Build`
(`Unbuilt`), and once a call began after `Close` the runtime stays closed (`KnowsEnd`). Assumed:
`GoAssumption` (the names for "no one" are none of the others) and
`RequestAssumption`.

**`SshDialProofs`.** `ClientsAreLeftAlone`, `NoSocketStays`, `ErrorsNameTheirCause`,
`BudgetIsOne`, for any budgets and however long the clock runs. `Places` says for
each place of `Dial` what the socket, the callback and the mux loop may have come
to; `CallbackIsCtx`, that the callback runs only after the context's end.
Assumed: `DialAssumption`.

**`ServiceRangesProofs`.** `LoadAllGivesAllOrNothing`, from `IInv`: files behind
`next` are loaded and sound (`Settled`), and an error left no table.
`LookupGivesTheClosest`, from `TableTells`: the table has the prefixes of all calls
so far and gives each to a service that lists it, of the last call that does. The
property alone is not inductive, as it says nothing of a listing that a longer one
hides. `LoadIs` is the loop of `load` in whatever order, `MergeIs` makes a merge a
load, and `CoversIs` and `SameKey` turn prefixes back into texts. Assumed:
`RangesAssumption` (a file has finitely many services, and texts are no longer
than an address).

**`UriValidatorProofs`.** `PassNamesTheHost`, `PlainUrlsPass`,
`AddressesAreRecognised`, `CallsGoOneWay`, for any words, suffixes, policies and URLs
of the pieces. The invariant is small (`SuffixesAreTexts`: each suffix is a text);
the work is on texts. `BeforeCuts` and `BehindCuts` say where a text put together
of two is cut apart; piece by piece they give the host (`HostIsFound`), once
`SchemeIsProper` has shown that a first "://" at the second token is the scheme's.
`RawAuthority` does the same for the text the userinfo check reads, with its
backslashes, and `EncodedIsBypass` and `NoBypass` say when that check fails.
`LabelsOfJoined` splits a host into the labels it was joined from, so what it is
taken for is a matter of its labels (`NameVerdicts`, `SixVerdicts`), and
`MatchIsUnder` that a suffix matches exactly if it is an end of the host at a dot.
Assumed: `WordsAssumption`, `UrlAssumption`, `SuffixAssumption`.

Every safety invariant and every action property of the runs is proved. Only
model-checked is liveness under fairness, which is out of the provers' reach:
`AnswerIsEventuallyGiven`, `EveryCallReturns`, `DialReturns`, `MuxLoopEnds`,
`RedirectLoopEnds`.

## Not modelled, and why

- The Python binding wraps the modelled Rust engine; its adapters, and those of
  Node (`protocols/`), run inside the lookup, socket and HTTP libraries of their
  languages. Three hazards of these adapters are listed without a property.
- `ressrf-ssh` and `tcpx`, `httpx`, `protocol_*.go`: they hand their checks to the
  engine or the connector and keep no state of their own.
- The Go engine's URI validator, `IsRequestAllowed` behind the rules, and
  concurrent callers of its sink. A sink that asks its own policy waits for
  `sinkMu`, which it holds; nothing says whether a sink may.
- `GoHost`: an audit sink that asks its own policy.
- Text to values: `parse_ip`, `parse_host_port`, `parse_url_components` are the
  classified or split inputs; regexes are sets of URLs; a prefix length written
  with a sign, which Rust parses and Go refuses, is not among the texts.
- `with_service_ranges`, `lookup_service`: no decision reads them.
- The `no_std` build without regexes; the cloud tables as data.
- Tracing sink, generated data, test vectors, fuzzers, scripts: no running state.

## Plan

1. The Go engine's URI validator beside `UriValidator`, as `GoPolicyEngine` stands
   beside `PolicyEngine`.
2. Two goroutines at the Go sink.
3. Node and Python adapters, compared with `PinnedDial`.
