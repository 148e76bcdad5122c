------------------------------ MODULE Matchers ------------------------------
(* What a query or an address is matched with: the MixMatcher of domain     *)
(* rules (pkg/matcher/domain) and the List of prefixes (pkg/matcher/netlist)*)
(* as they are filled, next to what they are to find.  A name is the        *)
(* sequence of its labels from the right, as ReverseDomainScanner hands them*)
(* out: lower case, without the last dot.  An address has AddrBits bits.    *)
(*                                                                          *)
(* A variant named X_Y is X with a bug, for the mutation tests.             *)
EXTENDS Naturals, Sequences, FiniteSets, SequencesExt

CONSTANTS
    DomainNames,   \* names that are matched, and patterns
    MaxRules,      \* bound on the rules added
    MaxPrefixes,   \* bound on the prefixes appended
    AddrBits,      \* the bits of an address, as To6 makes it
    V4Bits,        \* of an IPv4 address
    V4Base         \* the first of the addresses that IPv4 addresses are mapped to

Power2[n \in 0 .. AddrBits] == IF n = 0 THEN 1 ELSE 2 * Power2[n - 1]
AllAddrs == 0 .. Power2[AddrBits] - 1

ASSUME MatchersAssumption ==
    /\ DomainNames \subseteq Seq(STRING) /\ MaxRules \in Nat /\ MaxPrefixes \in Nat
    /\ AddrBits \in Nat /\ V4Bits \in 0 .. AddrBits
    /\ V4Base \in AllAddrs /\ V4Base + Power2[V4Bits] - 1 \in AllAddrs

Types == <<"full", "domain", "regexp", "keyword">>   \* in the order of Match
NoType == ""   \* a rule that names none, or no default

VARIABLES
    defaultMatcher,   \* of a rule without a type
    full,       \* FullMatcher: pattern -> value
    nodes,      \* SubDomainMatcher: the labelNodes, by their path from the root
    values,     \* the values of those that have one
    regs,       \* RegexMatcher: pattern -> value
    kws,        \* KeywordMatcher: pattern -> value
    added,      \* history: the rules added; a rule's number is its value
    list,       \* List.e
    listSorted, \* List.sorted
    appended    \* history: the prefixes appended

mixVars == <<defaultMatcher, full, nodes, values, regs, kws, added>>
listVars == <<list, listSorted, appended>>
matchVars == <<mixVars, listVars>>

NoneYet == [p \in {} |-> 0]
Put(f, k, v) == [x \in DOMAIN f \cup {k} |-> IF x = k THEN v ELSE f[x]]

MatchersInit ==
    /\ defaultMatcher \in {NoType, "full", "domain"}
    /\ full = NoneYet /\ nodes = {<<>>} /\ values = NoneYet
    /\ regs = NoneYet /\ kws = NoneYet /\ added = <<>>
    /\ list = <<>> /\ listSorted = FALSE /\ appended = {}
-----------------------------------------------------------------------------
(* Add: the rule goes to the matcher of its type; a pattern that is there   *)
(* gets the new value.                                                      *)
TypeOf(written) == IF written = NoType THEN defaultMatcher ELSE written

(* The nodes on the way to a pattern. *)
Path(p) == {SubSeq(p, 1, n) : n \in 0 .. Len(p)}

Add(written, p) ==
    LET v == Len(added) + 1
        type == TypeOf(written)
    IN /\ v <= MaxRules
       /\ type \in ToSet(Types)   \* or an error
       /\ added' = Append(added, [type |-> written, pattern |-> p])
       /\ full' = IF type = "full" THEN Put(full, p, v) ELSE full
       /\ nodes' = IF type = "domain" THEN nodes \cup Path(p) ELSE nodes
       /\ values' = IF type = "domain" THEN Put(values, p, v) ELSE values
       /\ regs' = IF type = "regexp" THEN Put(regs, p, v) ELSE regs
       /\ kws' = IF type = "keyword" THEN Put(kws, p, v) ELSE kws
       /\ UNCHANGED <<defaultMatcher, listVars>>

(* What a rule of a type fits; an expression stands for one that fits names *)
(* which begin with it.                                                     *)
Fits(type, p, name) ==
    CASE type = "full" -> name = p
      [] type = "domain" -> IsPrefix(p, name)
      [] type = "regexp" -> IsSuffix(p, name)
      [] type = "keyword" -> \E n \in 0 .. Len(name) : IsPrefix(p, SubSeq(name, n + 1, Len(name)))

(* The values a matcher may return, none if it does not match. *)
FullMatch(name) == IF name \in DOMAIN full THEN {full[name]} ELSE {}

(* The trie is walked as far as there are nodes; a node's value replaces    *)
(* that of the nodes above it.                                              *)
Deeper(v, node) == IF node \in DOMAIN values THEN {values[node]} ELSE v
SubDomainMatch(name) ==
    LET walk[n \in 0 .. Len(name)] ==
            LET node == SubSeq(name, 1, n)
                above == IF n = 0 THEN {} ELSE walk[n - 1]
            IN IF node \in nodes THEN Deeper(above, node) ELSE above
    IN walk[Len(name)]

(* These two look through a Go map: the first that fits is any. *)
RegexMatch(name) == {regs[p] : p \in {p \in DOMAIN regs : Fits("regexp", p, name)}}
KeywordMatch(name) == {kws[p] : p \in {p \in DOMAIN kws : Fits("keyword", p, name)}}

MixMatch(name) ==
    LET full1 == FullMatch(name)
        domain1 == SubDomainMatch(name)
        regex1 == RegexMatch(name)
    IN IF full1 # {} THEN full1 ELSE IF domain1 # {} THEN domain1
       ELSE IF regex1 # {} THEN regex1 ELSE KeywordMatch(name)
-----------------------------------------------------------------------------
(* List.  A prefix is its first address and the number of its bits.  *)
Block(bits) == Power2[AddrBits - bits]
Masked(addr, bits) == [addr |-> (addr \div Block(bits)) * Block(bits), bits |-> bits]
Covers(p, addr) == addr \div Block(p.bits) = p.addr \div Block(p.bits)

Prefixes6 == {Masked(a, b) : a \in AllAddrs, b \in 0 .. AddrBits}
To6(addr) == V4Base + addr
Prefixes4 ==   \* IPv4 prefixes, as Append maps them
    {Masked(To6(a), b + AddrBits - V4Bits) : a \in 0 .. Power2[V4Bits] - 1, b \in 0 .. V4Bits}

AppendNet(p) ==
    /\ Len(list) < MaxPrefixes /\ Cardinality(appended \cup {p}) <= MaxPrefixes
    /\ list' = Append(list, p)
    /\ appended' = appended \cup {p}
    /\ listSorted' = FALSE
    /\ UNCHANGED mixVars

(* sort.Sort may leave prefixes of one address in any order.  *)
SortedForms(s) ==
    {[i \in DOMAIN s |-> s[f[i]]] :
        f \in {f \in [DOMAIN s -> DOMAIN s] :
                 /\ \A i, j \in DOMAIN s : i # j => f[i] # f[j]
                 /\ \A i, j \in DOMAIN s : i < j => s[f[i]].addr <= s[f[j]].addr}}

(* A prefix inside of the last one kept is left out. *)
Inside_Never(p, addr) == FALSE
Inside(p, addr) == Covers(p, addr)
Dedup(out, n) ==
    IF out = <<>> THEN <<n>>
    ELSE LET lv == Last(out) IN
         IF n.addr = lv.addr
         THEN IF n.bits < lv.bits THEN Append(Front(out), n) ELSE out
         ELSE IF Inside(lv, n.addr) THEN out ELSE Append(out, n)

Deduped(s) ==
    LET out[n \in 0 .. Len(s)] == IF n = 0 THEN <<>> ELSE Dedup(out[n - 1], s[n])
    IN out[Len(s)]

Sort ==
    /\ ~listSorted
    /\ \E s \in SortedForms(list) : list' = Deduped(s)
    /\ listSorted' = TRUE
    /\ UNCHANGED <<appended, mixVars>>

(* Contains: the last prefix that does not start after addr, found by       *)
(* halving, is the only one that may cover it.                              *)
ListContains(addr) ==
    LET search[w \in (0 .. Len(list)) \X (0 .. Len(list))] ==   \* from w[1] up to w[2]
            LET h == (w[1] + w[2]) \div 2
            IN IF w[1] >= w[2] THEN w[1]
               ELSE IF list[h + 1].addr <= addr THEN search[<<h + 1, w[2]>>] ELSE search[<<w[1], h>>]
        found == search[<<0, Len(list)>>]
    IN found # 0 /\ Covers(list[found], addr)
-----------------------------------------------------------------------------
MixNext == \E written \in ToSet(Types) \cup {NoType, "unknown"}, p \in DomainNames : Add(written, p)
ListNext == Sort \/ \E p \in Prefixes6 \cup Prefixes4 : AppendNet(p)
MatchersNext == MixNext \/ ListNext

MatchersSpec == MatchersInit /\ [][MatchersNext]_matchVars

(* What is to be found, from the rules alone: a rule of the first type that *)
(* has one for the name; of domain rules the longest; of two for the same   *)
(* pattern the later.                                                       *)
ToFind(name) ==
    LET Type(i) == TypeOf(added[i].type)
        Rank(i) == CHOOSE n \in DOMAIN Types : Types[n] = Type(i)
        fitting == {i \in DOMAIN added : Fits(Type(i), added[i].pattern, name)}
        Beats(i, j) ==
            \/ Rank(i) < Rank(j)
            \/ /\ Rank(i) = Rank(j)
               /\ \/ added[i].pattern = added[j].pattern /\ i > j
                  \/ Type(i) = "domain" /\ Len(added[i].pattern) > Len(added[j].pattern)
    IN {i \in fitting : \A j \in fitting : ~Beats(j, i)}

(* Whatever is added in whatever order: a name gets the value of a rule it  *)
(* should, and a sorted list contains an address exactly if a prefix that   *)
(* was appended covers it, nested and repeated ones included - a prefix     *)
(* kept inside of another would hide it from the search.                    *)
MatchersAgree ==
    /\ \A name \in DomainNames : MixMatch(name) = ToFind(name)
    /\ listSorted => \A addr \in AllAddrs :
                        ListContains(addr) = (\E p \in appended : Covers(p, addr))
=============================================================================
