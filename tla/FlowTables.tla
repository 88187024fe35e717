---- MODULE FlowTables ----
(* From the diagram of a policy to the flow table of each switch, and what the
   switch does with it. *)
EXTENDS LocalCompiler, SequencesExt

CONSTANTS
  Switches,
  Ip, Arp,  \* two values of EthType
  Tcp, Udp  \* two values of IPProto

(* A switch is one that policies can name.  A packet has an address or a protocol only if
   its type says so, and a port only if its protocol does. *)
ASSUME TablesAreTyped ==
  /\ Switches \subseteq {hv[2] : hv \in Modifications}
  /\ \A pkt \in Packets :
       /\ pkt["IP4Dst"] # Absent => pkt["EthType"] \in {Ip, Arp}
       /\ pkt["IPProto"] # Absent => pkt["EthType"] = Ip
       /\ pkt["TCPDstPort"] # Absent => pkt["EthType"] = Ip /\ pkt["IPProto"] \in {Tcp, Udp}

----
(* The elements of a set in a given order, each found by the number of those before
   it: SetToSortSeq goes through all lists, too many for the larger actions. *)
Alist(o, seq) ==
  [i \in 1..Cardinality(seq) |->
     CHOOSE x \in seq : Cardinality({y \in seq : o[y[1]] < o[x[1]]}) = i - 1]

(* Seq.compare, of two Seq's as lists in the order of their fields: the first place
   where they differ decides. *)
AlistLess(o, a, b) ==
  \E i \in DOMAIN b :
    /\ \A j \in 1..(i - 1) : j \in DOMAIN a /\ a[j] = b[j]
    /\ i \in DOMAIN a => TestLess(o, a[i], b[i])

ParList(o, par) ==
  [i \in 1..Cardinality(par) |->
     CHOOSE s \in par : Cardinality({t \in par : AlistLess(o, Alist(o, t), Alist(o, s))}) = i - 1]

----
(* From diagrams to tables.  A row is a pattern, the set of tests a packet has
   to pass, and an action, a list of modifications each followed by an output. *)
HasField(tests, f) == \E hv \in tests : hv[1] = f

(* add_dependency_if_unseen: the rows of a pattern for one type or protocol, which
   replaces the one it has.  What is tested above already needs no row of its own. *)
AddDependencyIfUnseen(all, pat, dep) ==
  IF dep \in all THEN <<>> ELSE <<Merge(pat, {dep})>>

(* A switch only looks at a field where another says that the packet has it. *)
Lacks(pat, f, on) == HasField(pat, f) /\ ~HasField(pat, on)

(* Of the two that a port depends on, the type is folded into the pattern. *)
Folded(all, pat) ==
  IF Lacks(pat, "TCPDstPort", "IPProto") /\ ~HasField(pat, "EthType")
       /\ <<"EthType", Ip>> \notin all
  THEN Merge(pat, {<<"EthType", Ip>>}) ELSE pat

(* Mutant: only IP packets have an IP address. *)
FillInIp(all, pat) ==
  IF Lacks(pat, "IP4Dst", "EthType") THEN AddDependencyIfUnseen(all, pat, <<"EthType", Ip>>)
  ELSE <<pat>>

FillInDependencies(all, pat) ==
  LET unseen(dep) == AddDependencyIfUnseen(all, Folded(all, pat), dep)
  IN IF Lacks(pat, "IP4Dst", "EthType")
       THEN unseen(<<"EthType", Ip>>) \o unseen(<<"EthType", Arp>>)
     ELSE IF Lacks(pat, "IPProto", "EthType") THEN unseen(<<"EthType", Ip>>)
     ELSE IF Lacks(pat, "TCPDstPort", "IPProto")
       THEN unseen(<<"IPProto", Tcp>>) \o unseen(<<"IPProto", Udp>>)
     ELSE <<pat>>

(* to_pattern has a place for every field but the switch, which must have been
   restricted away: Pattern.to_sdn asserts it. *)
Representable(tests) == ~HasField(tests, "Switch")

(* get_inport: the port the packet is known to have come in by, if any. *)
InPortOf(tests) == {hv[2] : hv \in {t \in tests : t[1] = "Location" /\ t[2].kind = "mask"}}

IsPipeTest(hv) == hv[1] = "Location" /\ hv[2].kind = "pipe"

(* to_sdn forgets the names of pipes: all of them lead to the controller. *)
Nameless(s) == {IF IsPipeTest(hv) THEN <<"Location", Pipe(0)>> ELSE hv : hv \in s}

(* to_sdn, for one set of modifications: output to a port, to the controller (a
   pipe), or to the port the packet came in by, which has a name of its own. *)
InPort == [kind |-> "inport", bits |-> 0, len |-> 0]

Output(inPort, s) ==
  LET to == {hv[2] : hv \in {x \in s : x[1] = "Location"}}
  IN [mods |-> {hv \in s : hv[1] # "Location"},
      out |-> IF to \subseteq inPort THEN InPort ELSE CHOOSE v \in to : TRUE]

(* to_sdn conses the outputs: the greatest set of modifications comes first. *)
ToSdn(o, inPort, par) ==
  LET list == ParList(o, {Nameless(s) : s \in par})
  IN Reverse([i \in DOMAIN list |-> Output(inPort, list[i])])

DemodAll(tests, par) == {s \ tests : s \in par}

(* to_action *)
ToAction(o, tests, par) == ToSdn(o, InPortOf(tests), DemodAll(tests, par))

(* Mutant: a test that failed counts as one the packet passed. *)
MkFlowsAll(o, tests, all, par) ==
  LET pats == FillInDependencies(all, tests)
  IN [i \in DOMAIN pats |-> [pattern |-> pats[i], action |-> ToAction(o, all, par)]]

MkFlows(o, tests, all, par) ==
  LET pats == FillInDependencies(all, tests)
  IN [i \in DOMAIN pats |-> [pattern |-> pats[i], action |-> ToAction(o, tests, par)]]

(* naive_to_table: a row for each leaf. *)
naiveRows[x \in Ranks \X (SUBSET Tests) \X (SUBSET Tests) \X Diagrams] ==
  LET o == x[1]
      u == x[4]
      all1 == x[3] \cup {u.test}
  IN IF IsLeaf(u) THEN MkFlows(o, x[2], x[3], u.leaf)
     ELSE IF IsPipeTest(u.test) THEN naiveRows[<<o, x[2], x[3], u.fls>>]
     ELSE naiveRows[<<o, x[2] \cup {u.test}, all1, u.tru>>] \o naiveRows[<<o, x[2], all1, u.fls>>]

NaiveRows(o, tests, all, u) == naiveRows[<<o, tests, all, u>>]

(* next_table_row: the row of the leaf all tests lead to, the diagram for the
   packets it does not match, if any, and the tests seen on the way. *)
nextRow[x \in Ranks \X (SUBSET Tests) \X (SUBSET Tests) \X Diagrams] ==
  LET o == x[1]
      u == x[4]
      next == nextRow[<<o, x[2] \cup {u.test}, x[3] \cup {u.test}, u.tru>>]
  IN IF IsLeaf(u)
     THEN [rows |-> MkFlows(o, x[2], x[3], u.leaf), rest |-> <<>>, all |-> x[3]]
     ELSE IF IsPipeTest(u.test) THEN nextRow[<<o, x[2], x[3], u.fls>>]
     ELSE [next EXCEPT !.rest = IF @ = <<>> THEN <<u.fls>> ELSE <<MkBranch(u.test, @[1], u.fls)>>]

NextRow(o, tests, all, u) == nextRow[<<o, tests, all, u>>]

(* opt_to_table. *)
optRows[x \in Ranks \X (SUBSET Tests) \X Diagrams] ==
  LET next == NextRow(x[1], {}, x[2], x[3])
  IN IF next.rest = <<>> THEN next.rows
     ELSE next.rows \o optRows[<<x[1], next.all, next.rest[1]>>]

OptRows(o, all, u) == optRows[<<o, all, u>>]

ToRows(o, optimize, u) ==
  IF optimize THEN OptRows(o, {}, u) ELSE NaiveRows(o, {}, {}, u)

(* remove_tail_drops: a packet that matches nothing is dropped anyway. *)
RemoveTailDrops(table) ==
  LET acting == {i \in DOMAIN table : table[i].action # <<>>}
  IN SubSeq(table, 1, IF acting = {} THEN 0 ELSE Max(acting))

Trimmed(tailless, table) == IF tailless THEN RemoveTailDrops(table) ELSE table

ForSwitch(o, sw, u) == RestrictTo(o, {<<"Switch", sw>>}, u)

(* to_table. *)
Deduped(o, opts, u) == IF opts.dedup THEN Dedup(o, u) ELSE u

ToTable(o, opts, sw, u) ==
  Trimmed(opts.tailless, ToRows(o, opts.optimize, ForSwitch(o, sw, Deduped(o, opts, u))))

----
(* What a switch does with a table: the first row that matches. *)
Matches(pattern, pkt) == \A hv \in pattern : Holds(hv, pkt)

ActionFor(table, pkt) ==
  LET hits == {i \in DOMAIN table : Matches(table[i].pattern, pkt)}
  IN IF hits = {} THEN <<>> ELSE table[Min(hits)].action

(* Send a packet that came in as pkt and was modified to now. *)
Emit(pkt, now, out) ==
  [now EXCEPT !["Location"] = IF out = InPort THEN pkt["Location"] ELSE out]

(* Each set of modifications starts from the packet that came in. *)
RunPar(action, pkt) ==
  {Emit(pkt, Modify(action[i].mods, pkt), action[i].out) : i \in DOMAIN action}

(* Mutant: all modifications come first. *)
RunListModsFirst(action, pkt) ==
  LET now[i \in 0..Len(action)] ==
        IF i = 0 THEN pkt ELSE Modify(action[i].mods, now[i - 1])
  IN {Emit(pkt, now[Len(action)], action[i].out) : i \in DOMAIN action}

(* OpenFlow 1.0 has one list of actions: from_par concatenates, so that an output
   sends the packet as all modifications before it have left it. *)
RunList(action, pkt) ==
  LET now[i \in 0..Len(action)] ==
        IF i = 0 THEN pkt ELSE Modify(action[i].mods, now[i - 1])
  IN {Emit(pkt, now[i], action[i].out) : i \in DOMAIN action}

----
(* The packets a switch can match: they came in by a port. *)
PacketsAt(sw) == {pkt \in Packets : pkt["Switch"] = sw /\ pkt["Location"].kind = "mask"}

----
(* The controller is told of a packet, and not of the pipe it was put into. *)
Unnamed(pkt) ==
  [pkt EXCEPT !["Location"] = IF pkt["Location"].kind = "pipe" THEN Pipe(0) ELSE @]

Seen(pkt) == {Unnamed(k) : k \in means[pkt]}

IsRepresentable(table) == \A i \in DOMAIN table : Representable(table[i].pattern)

Implements(table, sw) ==
  /\ IsRepresentable(table)
  /\ \A pkt \in PacketsAt(sw) : RunPar(ActionFor(table, pkt), pkt) = Seen(pkt)

Options(dedup, optimize, tailless) ==
  [dedup |-> dedup, optimize |-> optimize, tailless |-> tailless]

(* Without the option optimize, the table of each switch does to a packet what
   the policy does, with the options dedup_flows and remove_tail_drops and
   without them. *)
NaiveTableImplements ==
  \A sw \in Switches, d \in BOOLEAN :
    Implements(ToTable(order, Options(d, FALSE, ~d), sw, diagram), sw)

TestsOf(u) ==
  LET tests[v \in Diagrams] ==
        IF IsLeaf(v) THEN {} ELSE {v.test} \cup tests[v.tru] \cup tests[v.fls]
  IN tests[u]

(* What each header that not every packet has depends on. *)
Dependencies ==
  {<<"IP4Dst", "EthType">>, <<"IPProto", "EthType">>, <<"TCPDstPort", "IPProto">>}

(* Packets with such a header, for which some test asks, and whose type or protocol
   another names. *)
Confusable(tests, pkt) ==
  \E d \in Dependencies :
    /\ pkt[d[1]] # Absent /\ HasField(tests, d[1])
    /\ <<d[2], pkt[d[2]]>> \in tests

(* The option optimize keeps the tests of all rows above to tell which types and protocols
   of packets a row need not name.  That is wrong at most for packets that have an address,
   a protocol or a port, where the diagram tests it and also what it depends on. *)
OptimisedTableImplements ==
  \A sw \in Switches, d \in BOOLEAN :
    LET opts == Options(d, TRUE, d)
        tests == TestsOf(Deduped(order, opts, diagram))
        table == ToTable(order, opts, sw, diagram)
    IN /\ IsRepresentable(table)
       /\ \A pkt \in PacketsAt(sw) :
            ~Confusable(tests, pkt) =>
              RunPar(ActionFor(table, pkt), pkt) = Seen(pkt)

SendsOnce(table, sw) ==
  \A pkt \in PacketsAt(sw) :
    LET action == ActionFor(table, pkt)
    IN Cardinality(RunPar(action, pkt)) = Len(action)

(* With the option dedup_flows no row sends the same packet twice. *)
NoPacketTwice ==
  \A sw \in Switches :
    SendsOnce(ToTable(order, Options(TRUE, FALSE, FALSE), sw, diagram), sw)

Uniform(action) ==
  \A i, j \in DOMAIN action : FieldsOf(action[i].mods) = FieldsOf(action[j].mods)

RunsWhereUniform(table, sw) ==
  \A pkt \in PacketsAt(sw) :
    LET action == ActionFor(table, pkt)
    IN Uniform(action) => RunList(action, pkt) = Seen(pkt)

(* Where all sets of modifications of a row set the same fields, the list of
   actions OpenFlow 1.0 has does what the row says. *)
UniformRowsRun ==
  \A sw \in Switches :
    RunsWhereUniform(ToTable(order, Options(TRUE, FALSE, FALSE), sw, diagram), sw)

DefaultOptions == Options(TRUE, TRUE, FALSE)

(* lib/Frenetic_NetKAT_Compiler.mli:60: to_table returns a flow table that
   implements the diagram for the switch. *)
TableImplements ==
  \A sw \in Switches : Implements(ToTable(order, DefaultOptions, sw, diagram), sw)

(* async/Frenetic_NetKAT_Controller.mli:31: update sets the global policy; a
   switch, which speaks OpenFlow 1.0, does to packets what the policy says. *)
SwitchRunsPolicy ==
  \A sw \in Switches :
    LET table == ToTable(order, Options(TRUE, FALSE, FALSE), sw, diagram)
    IN \A pkt \in PacketsAt(sw) : RunList(ActionFor(table, pkt), pkt) = Seen(pkt)
====
