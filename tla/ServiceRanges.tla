---------------------------- MODULE ServiceRanges ----------------------------
(***************************************************************************)
(* The table of cloud services by address of                               *)
(* crates/ressrf-core/src/service_ranges.rs: load_all reads the file of    *)
(* each provider, load and merge add to a table, lookup asks it.           *)
(*                                                                         *)
(* An address is the sequence of its bits with its family, a prefix the    *)
(* bits in front.  The two PrefixMaps (prefix_trie, external) are one      *)
(* function from prefixes to services, since a prefix names its family.    *)
(* A text in a file is [parses, fam, bits, len]: its address may have bits *)
(* behind its length.  A file is [state, provider, services], services     *)
(* being the HashMap of texts by service name, whose order is arbitrary.   *)
(***************************************************************************)
EXTENDS Integers, Sequences, FiniteSets, SequencesExt

CONSTANTS
  Bits,        \* [family -> length of an address]
  Files,       \* what a file can be
  Missing,     \* the state of a file that does not exist
  MaxCalls     \* bound: loads and merges

Families == DOMAIN Bits
IpAddr   == UNION {[fam : {f}, bits : [1 .. Bits[f] -> {0, 1}]] : f \in Families}
Provider == {"aws", "azure", "gcp"}

\* What parses as an Ipv4Net or an Ipv6Net, and what does not.
Text == { t \in [parses : BOOLEAN, fam : Families, bits : Seq({0, 1}), len : Nat] :
            Len(t.bits) = Bits[t.fam] /\ t.len <= Bits[t.fam] }

\* A HashMap is finite.
ASSUME RangesAssumption ==
  /\ \A f \in Families : Bits[f] \in Nat
  /\ \A file \in Files : /\ IsFiniteSet(DOMAIN file.services)
                          /\ \A s \in DOMAIN file.services : file.services[s] \in Seq(Text)

VARIABLES
  files,    \* the configuration directory: [provider named by the file -> file]
  table,    \* ServiceRangeTable: [prefix -> ServiceInfo]
  next,     \* the file load_all reads next
  result,   \* "loading", "ok" or "error"
  calls     \* history: the services of each load, in the order of the loads

vars == <<files, table, next, result, calls>>

Names == <<"aws", "azure", "gcp">>

-----------------------------------------------------------------------------

\* Ipv4Net and Ipv6Net in a PrefixMap: what is behind the length is masked.
Key(text) == [fam |-> text.fam, bits |-> SubSeq(text.bits, 1, text.len)]

Keys(texts) == {Key(texts[i]) : i \in {j \in DOMAIN texts : texts[j].parses}}

ServiceInfo(provider, service) == [provider |-> provider, service |-> service]

\* What is inserted replaces what is there.
Over(t, new) ==
  [key \in DOMAIN new \cup DOMAIN t |-> IF key \in DOMAIN new THEN new[key] ELSE t[key]]

Insert(t, info, texts) == Over(t, [key \in Keys(texts) |-> info])

\* load: the services in the order the HashMap gives.
Load(t, provider, services, order) ==
  LET done[n \in 0 .. Len(order)] ==
        IF n = 0 THEN t
        ELSE Insert(done[n - 1], ServiceInfo(provider, order[n]), services[order[n]])
  IN done[Len(order)]

Orders(services) == SetToSeqs(DOMAIN services)

\* Mutated form: the table merged into wins.
MergeKeeping(t, other) == Over(other, t)

\* merge: all that the other table holds is inserted.
Merge(t, other) == Over(t, other)

Covers(prefix, addr) == prefix.fam = addr.fam /\ IsPrefix(prefix.bits, addr.bits)

\* lookup: get_lpm on the trie of the address's family.  No info is <<>>.
Lookup(t, addr) ==
  LET found == {p \in DOMAIN t : Covers(p, addr)}
  IN IF found = {} THEN <<>>
     ELSE <<t[CHOOSE p \in found : \A q \in found : Len(q.bits) <= Len(p.bits)]>>

IsServiceIp(t, addr) == Lookup(t, addr) # <<>>

-----------------------------------------------------------------------------
Init ==
  /\ files \in [Provider -> Files]
  /\ table = <<>> /\ next = 1 /\ result = "loading" /\ calls = <<>>

\* load_from_file fails: unreadable, not JSON, or of no known provider.
Bad(file) == file.state # Missing /\ (file.state # "json" \/ file.provider \notin Provider)

Called(provider, services) == Append(calls, [provider |-> provider, services |-> services])

\* load_all, one file: one that does not exist is passed over.
SkipMissing ==
  /\ result = "loading" /\ next <= Len(Names)
  /\ files[Names[next]].state = Missing
  /\ next' = next + 1
  /\ UNCHANGED <<files, table, result, calls>>

\* load_from_file, then merge.
ReadFile ==
  /\ result = "loading" /\ next <= Len(Names)
  /\ LET file == files[Names[next]]
     IN /\ file.state # Missing /\ ~ Bad(file)
        /\ \E order \in Orders(file.services) :
              table' = Merge(table, Load(<<>>, file.provider, file.services, order))
        /\ calls' = Called(file.provider, file.services)
  /\ next' = next + 1
  /\ UNCHANGED <<files, result>>

\* Mutated form: a file that cannot be read is passed over.
SkipBad ==
  /\ result = "loading" /\ next <= Len(Names)
  /\ Bad(files[Names[next]])
  /\ next' = next + 1
  /\ UNCHANGED <<files, table, result, calls>>

\* load_from_file's error ends load_all; the table is dropped.
FailFile ==
  /\ result = "loading" /\ next <= Len(Names)
  /\ Bad(files[Names[next]])
  /\ result' = "error" /\ table' = <<>> /\ calls' = <<>>
  /\ UNCHANGED <<files, next>>

Loaded ==
  /\ result = "loading" /\ next > Len(Names)
  /\ result' = "ok"
  /\ UNCHANGED <<files, table, next, calls>>

\* The owner of the table calls load, or merges a table loaded elsewhere.
OwnerLoads(file) ==
  /\ result = "ok" /\ Len(calls) < MaxCalls
  /\ \E order \in Orders(file.services) :
        table' = Load(table, file.provider, file.services, order)
  /\ calls' = Called(file.provider, file.services)
  /\ UNCHANGED <<files, next, result>>

OwnerMerges(file) ==
  /\ result = "ok" /\ Len(calls) < MaxCalls
  /\ \E order \in Orders(file.services) :
        table' = Merge(table, Load(<<>>, file.provider, file.services, order))
  /\ calls' = Called(file.provider, file.services)
  /\ UNCHANGED <<files, next, result>>

Next ==
  \/ SkipMissing \/ ReadFile \/ FailFile \/ Loaded
  \/ \E file \in {f \in Files : f.state = "json" /\ f.provider \in Provider} :
        OwnerLoads(file) \/ OwnerMerges(file)

Spec == Init /\ [][Next]_vars

-----------------------------------------------------------------------------
(***************************************************************************)
(* Properties.                                                             *)
(***************************************************************************)
\* A text lists an address whose first len bits are the text's own.
Lists(text, addr) ==
  /\ text.parses /\ text.fam = addr.fam
  /\ \A k \in 1 .. text.len : text.bits[k] = addr.bits[k]

EntriesOf(n) ==
  UNION { {[call |-> n, service |-> s, text |-> calls[n].services[s][i]] :
             i \in DOMAIN calls[n].services[s]} : s \in DOMAIN calls[n].services }

Listings(addr) ==
  {l \in UNION {EntriesOf(n) : n \in DOMAIN calls} : Lists(l.text, addr)}

\* An address belongs to a service as soon as one text of one call lists it,
\* whatever comes before or after.  It is given to the longest listing; among
\* those, to the last call that made it, so that the provider never depends on
\* the order of a HashMap; and to one of the services of that call, which does.
OwnerIsTheClosestListing ==
  \A addr \in IpAddr :
     LET listings == Listings(addr)
         longest  == {l \in listings : \A m \in listings : m.text.len <= l.text.len}
         last     == {l \in longest : \A m \in longest : m.call <= l.call}
     IN /\ IsServiceIp(table, addr) <=> listings # {}
        /\ IsServiceIp(table, addr) =>
             \E l \in last :
                Lookup(table, addr) = <<ServiceInfo(calls[l.call].provider, l.service)>>

\* load_all gives a table of all the files there are, or none: one bad file
\* among the three leaves no table, and a missing one is no error.
LoadAllIsWhole ==
  /\ result = "error" => table = <<>> /\ \E p \in Provider : Bad(files[p])
  /\ result = "ok" =>
       \A p \in Provider : files[p].state # Missing =>
         /\ ~ Bad(files[p])
         /\ \E n \in DOMAIN calls : /\ calls[n].provider = files[p].provider
                                    /\ calls[n].services = files[p].services
=============================================================================
