--------------------------- MODULE ValidationProofs ---------------------------
(***************************************************************************)
(* Proofs about Validation, for every collection of files: what is read is *)
(* made of lists (SectionsRead), the indexes are those of the nodes before *)
(* the next one (IndexedSoFar), the vectors hold what the file declares    *)
(* (ReadInOrder), the loops of the rules stay within what they go through  *)
(* (Walking, Tallied), and what LAT001 sums is the delay of the path up to *)
(* whole words (Summing).                                                  *)
(***************************************************************************)
EXTENDS Validation, Flattening, TopologyProofs

-----------------------------------------------------------------------------
(* What is read.                                                           *)

(* A list has a length, and its items are numbered up to it.               *)
LEMMA ListIs ==
    ASSUME NEW x, IsList(x)
    PROVE  Len(x) \in Nat /\ DOMAIN x = 1..Len(x)
  BY LenProperties DEF IsList

(* What is numbered is a list.                                             *)
LEMMA NumberedIsList ==
    ASSUME NEW n \in Nat, NEW T, NEW x \in [1..n -> T]
    PROVE  IsList(x) /\ Len(x) = n
<1>1. x \in [1..n -> Range(x)]
  BY DEF Range
<1>2. x \in Seq(Range(x))
  BY <1>1, SeqDef
<1> QED
  BY <1>2, LenProperties DEF IsList

LEMMA SequenceIsList ==
    ASSUME NEW T, NEW x \in Seq(T)
    PROVE  IsList(x)
  BY LenProperties, NumberedIsList

(* Converting the items of a list gives a list with as many items.         *)
LEMMA EachIs ==
    ASSUME NEW c, NEW x, IsList(x), DOMAIN c = DOMAIN x, NEW s \in Each(c)
    PROVE  /\ IsList(s)
           /\ DOMAIN s = 1..Len(s)
           /\ Len(s) = Len(x)
           /\ \A i \in 1..Len(s) : s[i] \in c[i]
<1> DEFINE T == UNION {c[i] : i \in DOMAIN c}
<1>1. s \in [DOMAIN c -> T] /\ \A i \in DOMAIN c : s[i] \in c[i]
  BY DEF Each
<1> HIDE DEF T
<1>2. Len(x) \in Nat /\ DOMAIN c = 1..Len(x)
  BY ListIs
<1>3. IsList(s) /\ Len(s) = Len(x)
  BY <1>1, <1>2, NumberedIsList
<1> QED
  BY <1>1, <1>2, <1>3

(* The end of a list: what is left of it when it is worked off in order.   *)
IsEnd(s, t) == /\ s \in Seq(Range(t))
               /\ Len(s) <= Len(t)
               /\ \A i \in 1..Len(s) : s[i] = t[(Len(t) - Len(s)) + i]

LEMMA WholeIsEnd ==
    ASSUME NEW t, IsList(t)
    PROVE  IsEnd(t, t)
<1> DEFINE n == Len(t)
<1>1. n \in Nat
  BY ListIs
<1> HIDE DEF n
<1>2. n <= n /\ \A i \in 1..n : (n - n) + i = i
  BY <1>1
<1> QED
  BY <1>2 DEF IsEnd, IsList, n

(* The next item, and what is left after it.                               *)
LEMMA NextOfEnd ==
    ASSUME NEW t, IsList(t), NEW s, IsEnd(s, t), s # <<>>
    PROVE  /\ Len(s) \in 1..Len(t)
           /\ Head(s) \in Range(t)
           /\ Head(s) = t[(Len(t) - Len(s)) + 1]
           /\ Len(Tail(s)) = Len(s) - 1
           /\ IsEnd(Tail(s), t)
<1> DEFINE n == Len(s)
           m == Len(t)
<1>1. s \in Seq(Range(t)) /\ n <= m /\ \A i \in 1..n : s[i] = t[(m - n) + i]
  BY DEF IsEnd
<1>2. n \in Nat /\ n # 0 /\ m \in Nat
  BY <1>1, EmptySeq, LenProperties, ListIs
<1>3. /\ Tail(s) \in Seq(Range(t))
      /\ Len(Tail(s)) = n - 1
      /\ \A i \in 1..(n - 1) : Tail(s)[i] = s[i + 1]
  BY <1>1, HeadTailProperties
<1>4. Head(s) \in Range(t)
  BY <1>1, HeadTailProperties
<1>5. Head(s) = s[1]
  BY <1>1
<1> HIDE DEF n, m
<1>6. n \in 1..m /\ 1 \in 1..n
  BY <1>1, <1>2
<1>7. n - 1 <= m
  BY <1>1, <1>2
<1>8. ASSUME NEW i \in 1..(n - 1) PROVE Tail(s)[i] = t[(m - (n - 1)) + i]
  <2>1. i + 1 \in 1..n /\ (m - n) + (i + 1) = (m - (n - 1)) + i
    BY <1>2
  <2> QED
    BY <1>1, <1>3, <2>1
<1>9. Len(s) = n /\ Len(t) = m
  BY DEF n, m
<1> QED
  BY <1>1, <1>3, <1>4, <1>5, <1>6, <1>7, <1>8, <1>9 DEF IsEnd

LEMMA EndIsSuffix ==
    ASSUME NEW t, IsList(t), NEW s, IsEnd(s, t)
    PROVE  IsSuffix(s, t)
<1> DEFINE n == Len(s)
           m == Len(t)
<1>1. n \in Nat /\ m \in Nat /\ n <= m /\ \A i \in 1..n : s[i] = t[(m - n) + i]
  BY LenProperties, ListIs DEF IsEnd
<1> HIDE DEF n, m
<1>2. Reverse(s) = [i \in 1..n |-> s[(n - i) + 1]] /\ Reverse(t) = [i \in 1..m |-> t[(m - i) + 1]]
  BY DEF Reverse, n, m
<1>3. Len(Reverse(s)) = n /\ Len(Reverse(t)) = m
  BY <1>1, <1>2
<1>4. \A i \in 1..n : Reverse(s)[i] = Reverse(t)[i]
  BY <1>1, <1>2
<1>5. SubSeq(Reverse(s), 1, n) = SubSeq(Reverse(t), 1, n)
  BY <1>1, <1>3, <1>4
<1> QED
  BY <1>1, <1>3, <1>5 DEF IsSuffix, IsPrefix

(* The sections by name.                                                   *)
LEMMA SectionsAre ==
    /\ Range(Sections) = {"ecus", "nodes", "links", "streams", "multicast_groups", "someip_services", "domains"}
    /\ Vectors = {"nodes", "links", "streams", "multicast_groups", "someip_services", "domains"}
    /\ Len(Sections) = 7
<1>1. Len(Sections) = 7 /\ DOMAIN Sections = 1..7
  BY DEF Sections
<1>2. /\ Sections[1] = "ecus" /\ Sections[2] = "nodes" /\ Sections[3] = "links"
      /\ Sections[4] = "streams" /\ Sections[5] = "multicast_groups"
      /\ Sections[6] = "someip_services" /\ Sections[7] = "domains"
  BY DEF Sections
<1>3. \A i \in 1..7 : i = 1 \/ i = 2 \/ i = 3 \/ i = 4 \/ i = 5 \/ i = 6 \/ i = 7
  OBVIOUS
<1>4. Range(Sections) = {"ecus", "nodes", "links", "streams", "multicast_groups", "someip_services", "domains"}
  BY <1>1, <1>2, <1>3 DEF Range
<1>5. /\ VectorOf(Sections[1]) = "nodes" /\ VectorOf(Sections[2]) = "nodes" /\ VectorOf(Sections[3]) = "links"
      /\ VectorOf(Sections[4]) = "streams" /\ VectorOf(Sections[5]) = "multicast_groups"
      /\ VectorOf(Sections[6]) = "someip_services" /\ VectorOf(Sections[7]) = "domains"
  BY <1>2 DEF VectorOf
<1>6. Vectors = {"nodes", "links", "streams", "multicast_groups", "someip_services", "domains"}
  BY <1>1, <1>3, <1>5 DEF Vectors
<1> QED
  BY <1>1, <1>4, <1>6

LEMMA SectionsList == IsList(Sections)
<1>1. Sections \in [1..7 -> Range(Sections)]
  BY SectionsAre DEF Sections, Range
<1> QED
  BY <1>1, NumberedIsList

(* What is read from a section.                                            *)
LEMMA ReadingIs ==
    ASSUME NEW f \in DOMAIN Documents, NEW s \in Range(Sections)
    PROVE  Reading[f][s] = ParseSection(Documents[f], s)
<1>1. Len(Documents) \in Nat /\ DOMAIN Documents = 1..Len(Documents)
  BY DocumentsType, ListIs
<1> DEFINE R == [g \in DOMAIN Documents |-> Read(Documents[g])]
           T == {Read(Documents[g]) : g \in DOMAIN Documents}
<1>2. R \in Seq(T)
  BY <1>1, SeqDef
<1>3. R[f] = Read(Documents[f])
  OBVIOUS
<1> HIDE DEF R
<1>4. R \o <<>> = R
  BY <1>2, ConcatEmptySeq
<1>5. Reading[f] = Read(Documents[f])
  BY <1>3, <1>4 DEF Reading, R
<1> QED
  BY <1>5, SectionsAre DEF Read

(* What a section gives is a list; each of its members is made of the item *)
(* in the same place.                                                      *)
LEMMA SectionRead ==
    ASSUME NEW f \in DOMAIN Documents, NEW s \in Range(Sections), NEW e \in Reading[f][s]
    PROVE  /\ IsList(e)
           /\ \A i \in 1..Len(e) : /\ i \in DOMAIN Items(Documents[f], s)
                                   /\ e[i] \in ParseEntry(s, Items(Documents[f], s)[i])
           /\ Documents[f].kind # "malformed"
<1> DEFINE x == Items(Documents[f], s)
           c == [i \in DOMAIN x |-> ParseEntry(s, x[i])]
<1>1. Documents[f].kind # "malformed" /\ e \in Each(c)
  BY ReadingIs DEF ParseSection
<1>2. IsList(x)
  BY <1>1, DocumentsType
<1>3. DOMAIN x = 1..Len(x)
  BY <1>2, ListIs
<1>4. DOMAIN c = DOMAIN x /\ \A i \in DOMAIN x : c[i] = ParseEntry(s, x[i])
  OBVIOUS
<1> HIDE DEF c
<1>5. /\ IsList(e)
      /\ DOMAIN e = 1..Len(e)
      /\ Len(e) = Len(x)
      /\ \A i \in 1..Len(e) : e[i] \in c[i]
  BY <1>1, <1>2, <1>4, EachIs
<1> QED
  BY <1>1, <1>3, <1>4, <1>5

(* Two sections hold nodes.                                                *)
LEMMA NodeSections ==
    ASSUME NEW n
    PROVE  ParseEntry("ecus", n) = ParseNode(n) /\ ParseEntry("nodes", n) = ParseNode(n)
  BY DEF ParseEntry, VectorOf

(* A value that may be left out is there at most once.                     *)
LEMMA GivenIs ==
    ASSUME NEW n, NEW key, NEW value, NEW a \in Given(n, key, value)
    PROVE  (\A b, c \in a : b = c) /\ a \subseteq value
  BY DEF Given, Optional

(* The shaper of class A of a port that has been read: there is at most    *)
(* one, and its slope has its type.                                        *)
IsTimedPort(p) == /\ \A b, c \in p.cbs_a : b = c
                  /\ \A c \in p.cbs_a : c.idle \in Nat

LEMMA ShaperRead ==
    ASSUME NEW n, NEW c \in ParseCbs(n)
    PROVE  c.idle \in Nat
<1>1. PICK i \in OptionalNumber(n, "idle_slope_kbps", U("u32"), 0) :
        \E s \in OptionalNumber(n, "send_slope_kbps", I32, 0),
           h \in OptionalNumber(n, "hi_credit", I32, 0),
           l \in OptionalNumber(n, "lo_credit", I32, 0) :
          c = [idle |-> i, send |-> s, hi |-> h, lo |-> l]
  BY DEF ParseCbs
<1>2. c.idle = i
  BY <1>1
<1>3. U("u32") \subseteq Nat
  BY LargestType DEF U
<1>4. i \in U("u32") \cup {0}
  BY DEF OptionalNumber, Optional, AsNumber
<1> QED
  BY <1>2, <1>3, <1>4

LEMMA PortRead ==
    ASSUME NEW n, NEW p \in ParsePort(n)
    PROVE  IsTimedPort(p)
<1>1. PICK q \in ParseShapers(Qos(n)) : p.cbs_a = q.a
  BY DEF ParsePort
<1>2. PICK a \in Given(Qos(n), "cbs_class_a", ParseCbs(Field(Qos(n), "cbs_class_a"))) : q.a = a
  BY DEF ParseShapers
<1> QED
  BY <1>1, <1>2, GivenIs, ShaperRead DEF IsTimedPort

(* A node that has been read has a list of such ports.                     *)
IsNode(x) == IsList(x.ports) /\ \A j \in 1..Len(x.ports) : IsTimedPort(x.ports[j])

LEMMA NodeRead ==
    ASSUME NEW n, IsList(Items(n, "ports")), NEW x \in ParseNode(n)
    PROVE  IsNode(x)
<1> DEFINE y == Items(n, "ports")
           c == [i \in DOMAIN y |-> ParsePort(y[i])]
<1>1. PICK ps \in Each(c) : x.ports = ps
  BY DEF ParseNode
<1>2. DOMAIN c = DOMAIN y /\ DOMAIN y = 1..Len(y) /\ \A i \in DOMAIN y : c[i] = ParsePort(y[i])
  BY ListIs
<1> HIDE DEF c
<1>3. IsList(ps) /\ Len(ps) = Len(y) /\ \A i \in 1..Len(ps) : ps[i] \in c[i]
  BY <1>2, EachIs
<1>4. \A i \in 1..Len(ps) : ps[i] \in ParsePort(y[i])
  BY <1>2, <1>3
<1>5. \A i \in 1..Len(ps) : IsTimedPort(ps[i])
  BY <1>4, PortRead
<1> QED
  BY <1>1, <1>3, <1>5 DEF IsNode

(* The budget of a stream has its type.                                    *)
LEMMA StreamRead ==
    ASSUME NEW n, NEW s \in ParseStream(n)
    PROVE  s.budget_us \in Nat
<1>1. PICK t \in OptionalNumber(n, "max_latency_us", U("u32"), 0) : s.budget_us = t
  BY DEF ParseStream
<1>2. U("u32") \subseteq Nat
  BY LargestType DEF U
<1>3. t \in U("u32") \cup {0}
  BY DEF OptionalNumber, Optional, AsNumber
<1> QED
  BY <1>1, <1>2, <1>3

(* One list after another.                                                 *)
LEMMA ListsJoin ==
    ASSUME NEW x, NEW y, IsList(x), IsList(y)
    PROVE  /\ IsList(x \o y)
           /\ Len(x \o y) = Len(x) + Len(y)
           /\ \A i \in 1..Len(x \o y) : \/ i \in 1..Len(x) /\ (x \o y)[i] = x[i]
                                        \/ \E k \in 1..Len(y) : (x \o y)[i] = y[k]
<1> DEFINE T == Range(x) \cup Range(y)
<1>1. x \in Seq(T) /\ y \in Seq(T)
  BY SeqMonotonic DEF IsList
<1>2. x \o y \in Seq(T)
  BY <1>1, ConcatProperties
<1>3. /\ Len(x) \in Nat /\ Len(y) \in Nat /\ Len(x \o y) = Len(x) + Len(y)
      /\ \A i \in 1..(Len(x) + Len(y)) : (x \o y)[i] = IF i <= Len(x) THEN x[i] ELSE y[i - Len(x)]
  BY <1>1, ConcatProperties, LenProperties
<1> HIDE DEF T
<1>4. IsList(x \o y)
  BY <1>2, SequenceIsList
<1>5. ASSUME NEW i \in 1..Len(x \o y)
      PROVE  \/ i \in 1..Len(x) /\ (x \o y)[i] = x[i]
             \/ \E k \in 1..Len(y) : (x \o y)[i] = y[k]
  <2>1. CASE i <= Len(x)
    BY <1>3, <2>1
  <2>2. CASE ~(i <= Len(x))
    <3>1. i - Len(x) \in 1..Len(y) /\ (x \o y)[i] = y[i - Len(x)]
      BY <1>3, <2>2
    <3> QED
      BY <3>1
  <2> QED
    BY <2>1, <2>2
<1> QED
  BY <1>3, <1>4, <1>5

-----------------------------------------------------------------------------
(* Reading the sections.                                                   *)

IsStreamOf(s) == s.src \in Nodes /\ s.dsts \subseteq Nodes /\ s.budget_us \in Nat

(* Sections are left from the end of the list, and what has been read so   *)
(* far are lists of what their sections hold; the links are one section.   *)
Unread == IsEnd(unread, Sections)

VectorsRead == /\ parsed = [v \in Vectors |-> parsed[v]]
               /\ \A v \in Vectors : IsList(parsed[v])
               /\ \A i \in 1..Len(parsed.nodes) : IsNode(parsed.nodes[i])
               /\ parsed.links \in LinkLists
               /\ Len(unread) >= 5 => parsed.links = <<>>
               /\ \A i \in 1..Len(parsed.streams) : IsStreamOf(parsed.streams[i])

SectionsRead == file \in DOMAIN Documents /\ Unread /\ VectorsRead

LEMMA InitSectionsRead == LoadInit => SectionsRead
<1> SUFFICES ASSUME LoadInit PROVE SectionsRead
  OBVIOUS
<1>2. Unread
  BY SectionsList, WholeIsEnd DEF LoadInit, Unread
<1>3. \A v \in Vectors : parsed[v] = <<>>
  BY DEF LoadInit
<1>4. IsList(<<>>) /\ Len(<<>>) = 0
  BY EmptySeq DEF IsList
<1>5. parsed = [v \in Vectors |-> parsed[v]]
  BY DEF LoadInit
<1> QED
  BY <1>2, <1>3, <1>4, <1>5, SectionsAre, NamesType DEF LoadInit, SectionsRead, VectorsRead

(* The next section.                                                       *)
LEMMA NextSection ==
    ASSUME Unread, unread # <<>>
    PROVE  /\ Head(unread) \in Range(Sections)
           /\ Head(unread) = Sections[8 - Len(unread)]
           /\ Len(unread) \in 1..7
           /\ Len(Tail(unread)) = Len(unread) - 1
           /\ unread' = Tail(unread) => Unread'
<1> DEFINE n == Len(unread)
<1>1. /\ n \in 1..7
      /\ Head(unread) \in Range(Sections)
      /\ Head(unread) = Sections[(7 - n) + 1]
      /\ Len(Tail(unread)) = n - 1
      /\ IsEnd(Tail(unread), Sections)
  BY SectionsAre, SectionsList, NextOfEnd DEF Unread
<1>2. unread' = Tail(unread) => Unread'
  BY <1>1 DEF Unread
<1> HIDE DEF n
<1>3. (7 - n) + 1 = 8 - n
  BY <1>1
<1> QED
  BY <1>1, <1>2, <1>3 DEF n

(* Reading a section keeps the vectors lists of what belongs there.        *)
LEMMA ReadSectionKeeps ==
    ASSUME SectionsRead, ReadSection
    PROVE  SectionsRead'
<1> DEFINE s == Head(unread)
           v == VectorOf(s)
<1>1. /\ s \in Range(Sections)
      /\ s = Sections[8 - Len(unread)]
      /\ Len(unread) \in 1..7
      /\ Len(unread') = Len(unread) - 1
      /\ Unread'
  BY NextSection DEF SectionsRead, ReadSection
<1>2. PICK e \in Reading[file][s] : parsed' = [parsed EXCEPT ![v] = @ \o e]
  BY DEF ReadSection
<1>3. v \in Vectors
  BY <1>1, SectionsAre DEF VectorOf
<1>4. v = "nodes" => s \in {"ecus", "nodes"}
  BY <1>1, SectionsAre DEF VectorOf
<1>5. (v = "links" => s = "links") /\ (v = "streams" => s = "streams")
  BY <1>1, SectionsAre DEF VectorOf
<1>6. file \in DOMAIN Documents /\ VectorsRead /\ file' = file
  BY DEF SectionsRead, ReadSection
<1>7. s = "links" => Len(unread) = 5
  <2> DEFINE n == Len(unread)
  <2>1. n \in 1..7 /\ s = Sections[8 - n]
    BY <1>1
  <2> HIDE DEF n, s
  <2>2. PICK k \in 1..7 : k = 8 - n
    BY <2>1
  <2>3. s = Sections[k] => (s = "links" => k = 3)
    BY DEF Sections
  <2>4. s = "links" => n = 5
    BY <2>1, <2>2, <2>3
  <2> QED
    BY <2>4 DEF n
<1> HIDE DEF s, v
<1>8. IsList(e) /\ \A i \in 1..Len(e) : /\ i \in DOMAIN Items(Documents[file], s)
                                        /\ e[i] \in ParseEntry(s, Items(Documents[file], s)[i])
  BY <1>1, <1>2, <1>6, SectionRead
<1>9. IsList(parsed[v])
  BY <1>3, <1>6 DEF VectorsRead
<1>10. /\ parsed' = [w \in Vectors |-> parsed'[w]]
       /\ parsed'[v] = parsed[v] \o e
       /\ \A w \in Vectors \ {v} : parsed'[w] = parsed[w]
  BY <1>2, <1>3, <1>6 DEF VectorsRead
<1>11. /\ IsList(parsed'[v])
       /\ \A i \in 1..Len(parsed'[v]) : \/ i \in 1..Len(parsed[v]) /\ parsed'[v][i] = parsed[v][i]
                                       \/ \E k \in 1..Len(e) : parsed'[v][i] = e[k]
  <2>1. parsed'[v] = parsed[v] \o e
    BY <1>10
  <2> QED
    BY <1>8, <1>9, <2>1, ListsJoin
<1>15. \A w \in Vectors : IsList(parsed'[w])
  BY <1>10, <1>11, <1>6 DEF VectorsRead
<1>12. \A i \in 1..Len(parsed'.nodes) : IsNode(parsed'.nodes[i])
  <2>1. CASE v = "nodes"
    <3>1. \A i \in 1..Len(e) : IsNode(e[i])
      <4> SUFFICES ASSUME NEW i \in 1..Len(e) PROVE IsNode(e[i])
        OBVIOUS
      <4> DEFINE n == Items(Documents[file], s)[i]
      <4>1. IsList(Items(n, "ports"))
        BY <1>1, <1>2, <1>6, <1>8, SectionRead, DocumentsType
      <4>2. e[i] \in ParseNode(n)
        BY <1>4, <1>8, <2>1, NodeSections
      <4> QED
        BY <4>1, <4>2, NodeRead
    <3>2. \A i \in 1..Len(parsed.nodes) : IsNode(parsed.nodes[i])
      BY <1>6 DEF VectorsRead
    <3> QED
      BY <1>11, <2>1, <3>1, <3>2
  <2>2. CASE v # "nodes"
    BY <1>6, <1>10, <2>2, SectionsAre DEF VectorsRead
  <2> QED
    BY <2>1, <2>2
<1>13. parsed'.links \in LinkLists /\ (Len(unread') >= 5 => parsed'.links = <<>>)
  <2>1. CASE v = "links"
    <3>1. parsed.links = <<>> /\ s = "links" /\ Len(unread) = 5
      <4>1. s = "links" /\ Len(unread) = 5
        BY <1>5, <1>7, <2>1
      <4> QED
        BY <1>6, <4>1 DEF VectorsRead
    <3>2. e \in LinkLists
      BY <1>2, <1>6, <3>1, NamesType
    <3>3. parsed'.links = e
      BY <1>8, <1>10, <2>1, <3>1, ConcatEmptySeq DEF IsList
    <3> QED
      BY <1>1, <3>1, <3>2, <3>3
  <2>2. CASE v # "links"
    <3>1. parsed'.links = parsed.links
      BY <1>10, <2>2, SectionsAre
    <3> QED
      BY <1>1, <1>6, <3>1 DEF VectorsRead
  <2> QED
    BY <2>1, <2>2
<1>14. \A i \in 1..Len(parsed'.streams) : IsStreamOf(parsed'.streams[i])
  <2>1. CASE v = "streams"
    <3>1. \A i \in 1..Len(e) : IsStreamOf(e[i])
      <4> SUFFICES ASSUME NEW i \in 1..Len(e) PROVE IsStreamOf(e[i])
        OBVIOUS
      <4>1. e[i].src \in Nodes /\ e[i].dsts \subseteq Nodes
        BY <1>2, <1>5, <1>6, <1>8, <2>1, NamesType, ListIs
      <4>2. e[i] \in ParseEntry("streams", Items(Documents[file], "streams")[i])
        BY <1>5, <1>8, <2>1
      <4>3. e[i] \in ParseStream(Items(Documents[file], "streams")[i])
        BY <4>2 DEF ParseEntry, VectorOf
      <4> QED
        BY <4>1, <4>3, StreamRead DEF IsStreamOf
    <3>2. \A i \in 1..Len(parsed.streams) : IsStreamOf(parsed.streams[i])
      BY <1>6 DEF VectorsRead
    <3> QED
      BY <1>11, <2>1, <3>1, <3>2
  <2>2. CASE v # "streams"
    BY <1>6, <1>10, <2>2, SectionsAre DEF VectorsRead
  <2> QED
    BY <2>1, <2>2
<1> QED
  BY <1>1, <1>6, <1>10, <1>12, <1>13, <1>14, <1>15 DEF SectionsRead, VectorsRead

(* All that is read is read once, and then stays.                          *)
LEMMA SectionsStay == SectionsRead /\ UNCHANGED <<file, unread, parsed>> => SectionsRead'
  BY DEF SectionsRead, Unread, VectorsRead

(* Every step of the program reads a section, or leaves what is read as it *)
(* is.                                                                     *)
LEMMA SectionsStep == SectionsRead /\ [Next]_vars => SectionsRead'
<1> SUFFICES ASSUME SectionsRead, [Next]_vars PROVE SectionsRead'
  OBVIOUS
<1>1. CASE ReadSection
  BY <1>1, ReadSectionKeeps
<1>2. CASE ReadThrows \/ BuildIndexes \/ IndexNode \/ IndexThrows \/ NodesIndexed \/ IndexDomain \/ Loaded
  <2>1. UNCHANGED <<file, unread, parsed>>
    BY <1>2 DEF ReadThrows, BuildIndexes, IndexNode, IndexThrows, NodesIndexed, IndexDomain, Loaded
  <2> QED
    BY <2>1, SectionsStay
<1>3. CASE UNCHANGED loader
  BY <1>3, SectionsStay DEF loader
<1> QED
  BY <1>1, <1>2, <1>3
     DEF Next, Work, Load, LoadStep, CheckBandwidth, CheckServices, CheckLatency, Return, Report, Ended, vars

-----------------------------------------------------------------------------
(* The indexes.                                                            *)

PortName(i, j) == Key(parsed.nodes[i].id, parsed.nodes[i].ports[j].id)

(* The nodes before the k-th are indexed, each under its own name with all *)
(* its ports, and nothing else is.                                         *)
NodesIn(k) ==
    /\ \A id \in DOMAIN node_index : /\ node_index[id] \in 1..(k - 1)
                                     /\ parsed.nodes[node_index[id]].id = id
    /\ \A i \in 1..(k - 1) : /\ parsed.nodes[i].id \in DOMAIN node_index
                             /\ node_index[parsed.nodes[i].id] = i

PortsIn(k) ==
    /\ \A key \in DOMAIN port_index :
         \E i \in 1..(k - 1) : \E j \in 1..Len(parsed.nodes[i].ports) :
           port_index[key] = [node |-> i, port |-> j] /\ key = PortName(i, j)
    /\ \A i \in 1..(k - 1) : \A j \in 1..Len(parsed.nodes[i].ports) :
         /\ PortName(i, j) \in DOMAIN port_index
         /\ port_index[PortName(i, j)] = [node |-> i, port |-> j]

(* How far that is at each stage.                                          *)
IndexedSoFar ==
    \E k \in 1..(Len(parsed.nodes) + 1) :
      /\ NodesIn(k) /\ PortsIn(k)
      /\ stage = "read" => k = 1 /\ next = 1
      /\ stage = "nodes" => k = next
      /\ stage \in {"domains", "loaded"} => k = Len(parsed.nodes) + 1

LEMMA NodesList ==
    ASSUME SectionsRead
    PROVE  /\ Len(parsed.nodes) \in Nat
           /\ DOMAIN parsed.nodes = 1..Len(parsed.nodes)
           /\ \A i \in 1..Len(parsed.nodes) :
                /\ Len(parsed.nodes[i].ports) \in Nat
                /\ DOMAIN parsed.nodes[i].ports = 1..Len(parsed.nodes[i].ports)
<1>1. IsList(parsed.nodes) /\ \A i \in 1..Len(parsed.nodes) : IsList(parsed.nodes[i].ports)
  BY SectionsAre DEF SectionsRead, VectorsRead, IsNode
<1> QED
  BY <1>1, ListIs

LEMMA InitIndexed == LoadInit /\ SectionsRead => IndexedSoFar
<1> SUFFICES ASSUME LoadInit, SectionsRead PROVE IndexedSoFar
  OBVIOUS
<1>1. DOMAIN node_index = {} /\ DOMAIN port_index = {}
  BY DEF LoadInit
<1>2. NodesIn(1) /\ PortsIn(1)
  BY <1>1 DEF NodesIn, PortsIn
<1> QED
  BY <1>2, NodesList DEF IndexedSoFar, LoadInit

(* What is indexed stays so as long as nothing is written.                 *)
LEMMA IndexesStay ==
    ASSUME UNCHANGED <<parsed, node_index, port_index>>, NEW k, NodesIn(k), PortsIn(k)
    PROVE  NodesIn(k)' /\ PortsIn(k)'
<1>1. parsed' = parsed /\ node_index' = node_index /\ port_index' = port_index
  OBVIOUS
<1>2. NodesIn(k)'
  BY <1>1 DEF NodesIn
<1>3. \A i, j : PortName(i, j)' = PortName(i, j)
  BY <1>1 DEF PortName
<1>4. PortsIn(k)'
  BY <1>1, <1>3 DEF PortsIn
<1> QED
  BY <1>2, <1>4

(* A turn of the loop over the nodes indexes the next one and its ports.   *)
LEMMA NodeEntered ==
    ASSUME SectionsRead, IndexNode, NEW k, k = next, k \in 1..Len(parsed.nodes), NodesIn(k)
    PROVE  NodesIn(k + 1)'
<1>1. /\ Node.id \notin DOMAIN node_index
      /\ node_index' = [id \in DOMAIN node_index \cup {Node.id} |-> IF id = Node.id THEN next ELSE node_index[id]]
      /\ parsed' = parsed
  BY DEF IndexNode, Duplicate, Entered, Enter
<1>2. (k + 1) - 1 = next /\ next \in Nat
  BY NodesList
<1>3. ASSUME NEW id \in DOMAIN node_index'
      PROVE  node_index'[id] \in 1..next /\ parsed.nodes[node_index'[id]].id = id
  <2>1. CASE id = Node.id
    BY <1>1, <1>2, <2>1 DEF Node
  <2>2. CASE id # Node.id
    <3>1. id \in DOMAIN node_index /\ node_index'[id] = node_index[id]
      BY <1>1, <2>2
    <3> QED
      BY <1>2, <3>1 DEF NodesIn
  <2> QED
    BY <2>1, <2>2
<1>4. ASSUME NEW i \in 1..next
      PROVE  parsed.nodes[i].id \in DOMAIN node_index' /\ node_index'[parsed.nodes[i].id] = i
  <2>1. CASE i = next
    BY <1>1, <2>1 DEF Node
  <2>2. CASE i # next
    <3>1. parsed.nodes[i].id \in DOMAIN node_index /\ node_index[parsed.nodes[i].id] = i
      BY <1>2, <2>2 DEF NodesIn
    <3> QED
      BY <1>1, <3>1
  <2> QED
    BY <2>1, <2>2
<1> QED
  BY <1>1, <1>2, <1>3, <1>4 DEF NodesIn

LEMMA PortsEntered ==
    ASSUME SectionsRead, IndexNode, NEW k, k = next, k \in 1..Len(parsed.nodes), PortsIn(k)
    PROVE  PortsIn(k + 1)'
<1> DEFINE n == Len(Node.ports)
           K == Range(PortKeys(Node))
           Place(key) == CHOOSE j \in DOMAIN Node.ports : PortKeys(Node)[j] = key
<1>1. /\ port_index' = [key \in DOMAIN port_index \cup K |->
                          IF key \in K THEN [node |-> next, port |-> Place(key)] ELSE port_index[key]]
      /\ parsed' = parsed
      /\ next \in Nat
  BY NodesList DEF IndexNode, Entered
<1>2. /\ n \in Nat
      /\ DOMAIN Node.ports = 1..n
      /\ DOMAIN PortKeys(Node) = 1..n
      /\ \A j \in 1..n : PortKeys(Node)[j] = PortName(next, j)
  BY NodesList DEF Node, PortKeys, PortName
<1>3. \A j \in 1..n : /\ PortName(next, j) \notin DOMAIN port_index
                      /\ \A i \in 1..(j - 1) : PortName(next, i) # PortName(next, j)
  BY <1>2 DEF IndexNode, Duplicate
<1>4. K = {PortName(next, j) : j \in 1..n}
  BY <1>2 DEF Range
<1>5. ASSUME NEW j \in 1..n PROVE Place(PortName(next, j)) = j
  <2>1. \A i \in 1..n : PortName(next, i) = PortName(next, j) => i = j
    BY <1>2, <1>3
  <2> QED
    BY <1>2, <2>1
<1>6. Node = parsed.nodes[next]
  BY DEF Node
<1> HIDE DEF n, K, Place
<1>7. ASSUME NEW j \in 1..n
      PROVE  /\ PortName(next, j) \in DOMAIN port_index'
             /\ port_index'[PortName(next, j)] = [node |-> next, port |-> j]
  BY <1>1, <1>4, <1>5
<1>8. ASSUME NEW key \in DOMAIN port_index'
      PROVE  \E i \in 1..next : \E j \in 1..Len(parsed.nodes[i].ports) :
               port_index'[key] = [node |-> i, port |-> j] /\ key = PortName(i, j)
  <2>1. CASE key \in K
    <3>1. PICK j \in 1..n : key = PortName(next, j)
      BY <1>4, <2>1
    <3>2. port_index'[key] = [node |-> next, port |-> j]
      BY <1>7, <3>1
    <3>3. j \in 1..Len(parsed.nodes[next].ports) /\ next \in 1..next
      BY <1>1, <1>6 DEF n
    <3> QED
      BY <3>1, <3>2, <3>3
  <2>2. CASE key \notin K
    <3>1. key \in DOMAIN port_index /\ port_index'[key] = port_index[key]
      BY <1>1, <2>2
    <3> QED
      BY <1>1, <3>1 DEF PortsIn
  <2> QED
    BY <2>1, <2>2
<1>9. ASSUME NEW i \in 1..next, NEW j \in 1..Len(parsed.nodes[i].ports)
      PROVE  /\ PortName(i, j) \in DOMAIN port_index'
             /\ port_index'[PortName(i, j)] = [node |-> i, port |-> j]
  <2>1. CASE i = next
    BY <1>6, <1>7, <2>1 DEF n
  <2>2. CASE i # next
    <3>1. i \in 1..(next - 1)
      BY <1>1, <2>2
    <3>2. PortName(i, j) \in DOMAIN port_index /\ port_index[PortName(i, j)] = [node |-> i, port |-> j]
      BY <3>1 DEF PortsIn
    <3>3. PortName(i, j) \notin K
      BY <1>3, <1>4, <3>2
    <3> QED
      BY <1>1, <3>2, <3>3
  <2> QED
    BY <2>1, <2>2
<1>10. (k + 1) - 1 = next
  BY <1>1
<1>11. \A i, j : PortName(i, j)' = PortName(i, j)
  BY <1>1 DEF PortName
<1>12. \A key \in DOMAIN port_index' :
         \E i \in 1..((k + 1) - 1) : \E j \in 1..Len(parsed'.nodes[i].ports) :
           port_index'[key] = [node |-> i, port |-> j] /\ key = PortName(i, j)'
  BY <1>1, <1>8, <1>10, <1>11
<1>13. \A i \in 1..((k + 1) - 1) : \A j \in 1..Len(parsed'.nodes[i].ports) :
         /\ PortName(i, j)' \in DOMAIN port_index'
         /\ port_index'[PortName(i, j)'] = [node |-> i, port |-> j]
  BY <1>1, <1>9, <1>10, <1>11
<1> QED
  BY <1>12, <1>13 DEF PortsIn

(* Loading never loses track of what is indexed.                           *)
LEMMA IndexedStep == SectionsRead /\ IndexedSoFar /\ [Next]_vars => IndexedSoFar'
<1> SUFFICES ASSUME SectionsRead, IndexedSoFar, [Next]_vars PROVE IndexedSoFar'
  OBVIOUS
<1> DEFINE n == Len(parsed.nodes)
<1>1. PICK k \in 1..(n + 1) :
        /\ NodesIn(k) /\ PortsIn(k)
        /\ stage = "read" => k = 1 /\ next = 1
        /\ stage = "nodes" => k = next
        /\ stage \in {"domains", "loaded"} => k = n + 1
  BY DEF IndexedSoFar
<1>2. n \in Nat
  BY NodesList
<1>3. CASE ReadSection
  <2>1. k = 1 /\ next' = 1 /\ stage' = "read" /\ UNCHANGED <<node_index, port_index>>
    BY <1>1, <1>3 DEF ReadSection
  <2>2. NodesIn(1)' /\ PortsIn(1)'
    BY <1>1, <2>1 DEF NodesIn, PortsIn
  <2>3. Len(parsed'.nodes) \in Nat
    BY <1>3, ReadSectionKeeps, SectionsAre, ListIs DEF SectionsRead, VectorsRead
  <2> QED
    BY <2>1, <2>2, <2>3 DEF IndexedSoFar
<1>4. CASE IndexNode
  <2>1. /\ stage = "nodes" /\ k = next /\ k \in 1..n
        /\ stage' = "nodes" /\ next' = next + 1 /\ parsed' = parsed
    BY <1>1, <1>2, <1>4 DEF IndexNode, Indexing
  <2>2. NodesIn(k + 1)' /\ PortsIn(k + 1)'
    BY <1>1, <1>4, <2>1, NodeEntered, PortsEntered
  <2>3. k + 1 \in 1..(n + 1) /\ next' = k + 1
    BY <1>2, <2>1
  <2> QED
    BY <2>1, <2>2, <2>3 DEF IndexedSoFar
<1>5. CASE UNCHANGED <<parsed, node_index, port_index>>
        /\ \/ stage' = "threw"
           \/ stage = "read" /\ stage' = "nodes" /\ next' = next
           \/ stage = "nodes" /\ stage' = "domains" /\ next > n
           \/ stage = "domains" /\ stage' \in {"domains", "loaded"}
           \/ UNCHANGED <<stage, next>>
  <2>1. NodesIn(k)' /\ PortsIn(k)' /\ parsed' = parsed
    BY <1>1, <1>5, IndexesStay
  <2>2. /\ stage' = "read" => k = 1 /\ next' = 1
        /\ stage' = "nodes" => k = next'
        /\ stage' \in {"domains", "loaded"} => k = n + 1
    BY <1>1, <1>2, <1>5
  <2> QED
    BY <2>1, <2>2 DEF IndexedSoFar
<1>6. CASE ReadThrows \/ BuildIndexes \/ IndexThrows \/ NodesIndexed \/ IndexDomain \/ Loaded
  BY <1>5, <1>6 DEF ReadThrows, BuildIndexes, IndexThrows, NodesIndexed, IndexDomain, Loaded
<1>7. CASE UNCHANGED loader
  BY <1>5, <1>7 DEF loader
<1> QED
  BY <1>3, <1>4, <1>6, <1>7
     DEF Next, Work, Load, LoadStep, CheckBandwidth, CheckServices, CheckLatency, Return, Report, Ended, vars

LEMMA AlwaysIndexed == Spec => [](SectionsRead /\ IndexedSoFar)
<1>1. Init => SectionsRead /\ IndexedSoFar
  BY InitSectionsRead, InitIndexed DEF Init
<1> QED
  BY <1>1, SectionsStep, IndexedStep, PTL DEF Spec

(* Every node and every port of a file that is loaded answers to its own   *)
(* name, whatever the names and however they are joined.                   *)
THEOREM NothingIsShadowed == Spec => []NothingShadowed
<1>1. SectionsRead /\ IndexedSoFar => NothingShadowed
  <2> SUFFICES ASSUME SectionsRead, IndexedSoFar, stage = "loaded", NEW i \in DOMAIN parsed.nodes
               PROVE  /\ node_index[parsed.nodes[i].id] = i
                      /\ \A j \in DOMAIN parsed.nodes[i].ports :
                           port_index[Key(parsed.nodes[i].id, parsed.nodes[i].ports[j].id)] = [node |-> i, port |-> j]
    BY DEF NothingShadowed
  <2> DEFINE n == Len(parsed.nodes)
  <2>1. NodesIn(n + 1) /\ PortsIn(n + 1)
    BY DEF IndexedSoFar
  <2>2. /\ n \in Nat /\ i \in 1..n /\ (n + 1) - 1 = n
        /\ DOMAIN parsed.nodes[i].ports = 1..Len(parsed.nodes[i].ports)
    BY NodesList
  <2> HIDE DEF n
  <2> QED
    BY <2>1, <2>2 DEF NodesIn, PortsIn, PortName
<1> QED
  BY <1>1, AlwaysIndexed, PTL

-----------------------------------------------------------------------------
(* As long as sections are read, nothing has been indexed.                 *)
NotIndexed == stage = "read" => node_index = <<>>

(* Sections are read before build_indexes is called, and never again.      *)
LEMMA NotIndexedStep == NotIndexed /\ [Next]_vars => NotIndexed'
<1> SUFFICES ASSUME NotIndexed, [Next]_vars PROVE NotIndexed'
  OBVIOUS
<1> USE DEF NotIndexed
<1>1. CASE ReadThrows
  BY <1>1 DEF ReadThrows
<1>2. CASE ReadSection
  BY <1>2 DEF ReadSection
<1>3. CASE BuildIndexes
  BY <1>3 DEF BuildIndexes
<1>4. CASE IndexNode
  BY <1>4 DEF IndexNode, Indexing
<1>5. CASE IndexThrows
  BY <1>5 DEF IndexThrows
<1>6. CASE NodesIndexed
  BY <1>6 DEF NodesIndexed
<1>7. CASE IndexDomain
  BY <1>7 DEF IndexDomain
<1>8. CASE Loaded
  BY <1>8 DEF Loaded
<1>9. CASE UNCHANGED loader
  BY <1>9 DEF loader
<1> QED
  BY <1>1, <1>2, <1>3, <1>4, <1>5, <1>6, <1>7, <1>8, <1>9
     DEF Next, Work, Load, LoadStep, CheckBandwidth, CheckServices, CheckLatency, Return, Report, Ended, vars

(* Only the sections change the vectors.                                   *)
LEMMA OnlySections == [Next]_vars => ReadSection \/ UNCHANGED parsed
<1> SUFFICES ASSUME [Next]_vars PROVE ReadSection \/ UNCHANGED parsed
  OBVIOUS
<1>1. CASE LoadStep
  BY <1>1 DEF LoadStep, ReadThrows, BuildIndexes, IndexNode, IndexThrows, NodesIndexed, IndexDomain, Loaded
<1>2. CASE UNCHANGED loader
  BY <1>2 DEF loader
<1> QED
  BY <1>1, <1>2
     DEF Next, Work, Load, CheckBandwidth, CheckServices, CheckLatency, Return, Report, Ended, vars

(* The pointers of the indexes stay valid: once there are any, the vector  *)
(* of nodes does not change.                                               *)
THEOREM PointersValid == Spec => PointersStay
<1>1. Init => NotIndexed
  BY DEF Init, LoadInit, NotIndexed
<1>2. NotIndexed /\ [Next]_vars => [node_index # <<>> => UNCHANGED parsed.nodes]_vars
  BY OnlySections DEF NotIndexed, ReadSection
<1> QED
  BY <1>1, <1>2, NotIndexedStep, PTL DEF Spec, PointersStay
-----------------------------------------------------------------------------
(* What is looked up is what is declared.                                  *)

(* Joining with nothing.                                                   *)
LEMMA JoinNothing ==
    ASSUME NEW x, IsList(x)
    PROVE  x \o <<>> = x /\ <<>> \o x = x
  BY ConcatEmptySeq DEF IsList

(* What has been read of the i-th section.                                 *)
Got(i) == IF i <= 7 - Len(unread) THEN Declarations(file, Sections[i]) ELSE <<>>

AllRead == /\ parsed.nodes = Got(1) \o Got(2)
           /\ parsed.links = Got(3)
           /\ parsed.streams = Got(4)
           /\ parsed.multicast_groups = Got(5)
           /\ parsed.someip_services = Got(6)
           /\ parsed.domains = Got(7)

(* The vectors hold what the sections before the next one declare.         *)
ReadInOrder == /\ \A i \in 1..(7 - Len(unread)) : Reading[file][Sections[i]] # {}
               /\ AllRead
               /\ stage \in {"nodes", "domains", "loaded"} => unread = <<>>

(* The sections by position.                                               *)
LEMMA SectionAt ==
    /\ Sections[1] = "ecus" /\ Sections[2] = "nodes" /\ Sections[3] = "links"
    /\ Sections[4] = "streams" /\ Sections[5] = "multicast_groups"
    /\ Sections[6] = "someip_services" /\ Sections[7] = "domains"
    /\ \A i \in 1..7 : Sections[i] \in Range(Sections)
<1>1. \A i \in 1..7 : i \in DOMAIN Sections
  BY DEF Sections
<1> QED
  BY <1>1 DEF Sections, Range

(* At first nothing has been read.                                         *)
LEMMA InitReadInOrder == LoadInit => ReadInOrder
<1> SUFFICES ASSUME LoadInit PROVE ReadInOrder
  OBVIOUS
<1>1. Len(unread) = 7 /\ stage = "read"
  BY SectionsAre DEF LoadInit
<1>2. \A i \in 1..7 : Got(i) = <<>>
  BY <1>1 DEF Got
<1>3. \A v \in Vectors : parsed[v] = <<>>
  BY DEF LoadInit
<1>4. <<>> \o <<>> = <<>>
  BY JoinNothing, EmptySeq DEF IsList
<1>5. AllRead
  <2>1. Got(1) = <<>> /\ Got(2) = <<>> /\ Got(3) = <<>> /\ Got(4) = <<>> /\ Got(5) = <<>> /\ Got(6) = <<>> /\ Got(7) = <<>>
    BY <1>2
  <2> QED
    BY <1>3, <1>4, <2>1, SectionsAre DEF AllRead
<1> QED
  BY <1>1, <1>5 DEF ReadInOrder

(* What a section declares, if it can be read, is what is read.            *)
LEMMA OneDeclaration ==
    ASSUME NEW f \in DOMAIN Documents, NEW s \in Range(Sections), NEW e \in Reading[f][s]
    PROVE  e = Declarations(f, s)
<1>1. Declarations(f, s) \in Reading[f][s]
  BY DEF Declarations
<1> QED
  BY <1>1, ReadOneWay

(* How many sections are left.                                             *)
LEMMA UnreadLen ==
    ASSUME Unread
    PROVE  Len(unread) \in 0..7
<1>1. unread \in Seq(Range(Sections)) /\ Len(unread) <= 7
  BY SectionsAre DEF Unread, IsEnd
<1>2. Len(unread) \in Nat
  BY <1>1, LenProperties
<1> DEFINE n == Len(unread)
<1>3. n \in Nat /\ n <= 7
  BY <1>1, <1>2
<1> HIDE DEF n
<1>4. n \in 0..7
  BY <1>3
<1> QED
  BY <1>4 DEF n

(* What has been read of a section is a list.                              *)
LEMMA GotList ==
    ASSUME SectionsRead, ReadInOrder, NEW i \in 1..7
    PROVE  IsList(Got(i))
<1>1. CASE i <= 7 - Len(unread)
  <2>1. Got(i) = Declarations(file, Sections[i]) /\ Reading[file][Sections[i]] # {}
    BY <1>1, UnreadLen DEF Got, ReadInOrder, SectionsRead
  <2>2. Got(i) \in Reading[file][Sections[i]]
    BY <2>1 DEF Declarations
  <2> QED
    BY <2>2, SectionAt, SectionRead DEF SectionsRead
<1>2. CASE ~(i <= 7 - Len(unread))
  BY <1>2, EmptySeq DEF Got, IsList
<1> QED
  BY <1>1, <1>2

(* The next section is read in its turn.                                   *)
LEMMA SectionComes ==
    ASSUME SectionsRead, ReadInOrder, ReadSection
    PROVE  ReadInOrder'
<1> DEFINE n == Len(unread)
           s == Head(unread)
<1>1. n \in 1..7 /\ s = Sections[8 - n] /\ s \in Range(Sections) /\ Len(unread') = n - 1
  BY NextSection DEF SectionsRead, ReadSection
<1>2. PICK e \in Reading[file][s] : parsed' = [parsed EXCEPT ![VectorOf(s)] = @ \o e]
  BY DEF ReadSection
<1>3. /\ file \in DOMAIN Documents /\ file' = file
      /\ stage' = "read"
  BY DEF SectionsRead, ReadSection
<1>4. e = Declarations(file, s) /\ IsList(e)
  BY <1>1, <1>2, <1>3, OneDeclaration, SectionRead
<1> HIDE DEF n, s
<1>5. PICK k \in 1..7 : k = 8 - n /\ s = Sections[k]
  BY <1>1
<1>6. /\ \A i \in 1..7 : i < k => Got(i)' = Got(i)
      /\ Got(k) = <<>> /\ Got(k)' = e
      /\ \A i \in 1..7 : i > k => Got(i) = <<>> /\ Got(i)' = <<>>
  <2>1. \A i \in 1..7 : (i < k => i <= 7 - n /\ i <= 7 - (n - 1)) /\ (i > k => ~(i <= 7 - n) /\ ~(i <= 7 - (n - 1)))
    BY <1>1, <1>5
  <2>2. ~(k <= 7 - n) /\ k <= 7 - (n - 1)
    BY <1>1, <1>5
  <2>3. /\ \A i : Got(i) = IF i <= 7 - n THEN Declarations(file, Sections[i]) ELSE <<>>
        /\ \A i : Got(i)' = IF i <= 7 - (n - 1) THEN Declarations(file, Sections[i]) ELSE <<>>
    <3>1. \A f, x : Declarations(f, x)' = Declarations(f, x)
      BY DEF Declarations
    <3> QED
      BY <1>1, <1>3 DEF Got, n, Declarations
  <2>4. Got(k) = <<>> /\ Got(k)' = Declarations(file, Sections[k]) /\ Sections[k] = s
    BY <1>1, <1>5, <2>2, <2>3
  <2>5. ASSUME NEW i \in 1..7, i < k PROVE Got(i)' = Got(i)
    BY <2>1, <2>3, <2>5
  <2>6. ASSUME NEW i \in 1..7, i > k PROVE Got(i) = <<>> /\ Got(i)' = <<>>
    BY <2>1, <2>3, <2>6
  <2> QED
    BY <1>4, <2>4, <2>5, <2>6
<1>7. \A i \in 1..(7 - Len(unread')) : Reading[file'][Sections[i]] # {}
  <2> SUFFICES ASSUME NEW i \in 1..(7 - Len(unread')) PROVE Reading[file][Sections[i]] # {}
    BY <1>3
  <2>1. i \in 1..(7 - n) \/ i = k
    BY <1>1, <1>5
  <2> QED
    BY <1>2, <1>5, <2>1 DEF ReadInOrder, n
<1>8. \A i \in 1..7 : IsList(Got(i))
  BY GotList
<1>9. AllRead /\ parsed = [v \in Vectors |-> parsed[v]]
  BY DEF ReadInOrder, SectionsRead, VectorsRead
<1>10. AllRead'
  <2>1. CASE k \in {1, 2}
    <3>1. VectorOf(s) = "nodes"
      BY <1>1, <1>5, <2>1, SectionAt DEF VectorOf
    <3>2. parsed'.nodes = parsed.nodes \o e /\ \A v \in Vectors \ {"nodes"} : parsed'[v] = parsed[v]
      BY <1>2, <1>9, <3>1, SectionsAre
    <3>3. parsed'.nodes = Got(1)' \o Got(2)'
      <4>1. CASE k = 1
        <5>1. Got(1) = <<>> /\ Got(2) = <<>> /\ Got(1)' = e /\ Got(2)' = <<>>
          BY <1>6, <4>1
        <5>2. parsed'.nodes = (<<>> \o <<>>) \o e
          BY <1>9, <3>2, <5>1 DEF AllRead
        <5>3. <<>> \o <<>> = <<>>
          BY JoinNothing, EmptySeq DEF IsList
        <5> QED
          BY <1>4, <5>1, <5>2, <5>3, JoinNothing
      <4>2. CASE k = 2
        <5>1. Got(2) = <<>> /\ Got(1)' = Got(1) /\ Got(2)' = e
          BY <1>6, <4>2
        <5>2. parsed'.nodes = (Got(1) \o <<>>) \o e
          BY <1>9, <3>2, <5>1 DEF AllRead
        <5> QED
          BY <1>8, <5>1, <5>2, JoinNothing
      <4> QED
        BY <2>1, <4>1, <4>2
    <3>4. ASSUME NEW i \in 3..7 PROVE Got(i)' = Got(i)
      BY <1>6, <2>1
    <3>5. /\ Got(3)' = Got(3) /\ Got(4)' = Got(4) /\ Got(5)' = Got(5)
          /\ Got(6)' = Got(6) /\ Got(7)' = Got(7)
      BY <3>4
    <3>6. /\ parsed'.links = parsed.links /\ parsed'.streams = parsed.streams
          /\ parsed'.multicast_groups = parsed.multicast_groups
          /\ parsed'.someip_services = parsed.someip_services /\ parsed'.domains = parsed.domains
      BY <3>2, SectionsAre
    <3> QED
      BY <1>9, <3>3, <3>5, <3>6 DEF AllRead
  <2>2. CASE k \in 3..7
    <3>1. /\ VectorOf(s) = s /\ s = Sections[k] /\ s \in Vectors
      BY <1>1, <1>5, <2>2, SectionAt, SectionsAre DEF VectorOf
    <3>2. parsed'[s] = parsed[s] \o e /\ \A v \in Vectors \ {s} : parsed'[v] = parsed[v]
      BY <1>2, <1>9, <3>1
    <3>3. parsed[s] = <<>>
      BY <1>6, <1>9, <2>2, <3>1, SectionAt DEF AllRead
    <3>4. parsed'[s] = e
      BY <1>4, <3>2, <3>3, JoinNothing
    <3>5. \A i \in 1..7 : i # k => Got(i)' = Got(i)
      BY <1>5, <1>6
    <3>6. Got(1)' = Got(1) /\ Got(2)' = Got(2) /\ parsed'.nodes = parsed.nodes
      BY <2>2, <3>1, <3>2, <3>5, SectionAt, SectionsAre
    <3>7. ASSUME NEW i \in 3..7, parsed[Sections[i]] = Got(i) PROVE parsed'[Sections[i]] = Got(i)'
      <4>1. CASE i = k
        BY <1>6, <3>1, <3>4, <4>1
      <4>2. CASE i # k
        <5>1. Sections[i] # Sections[k] /\ Sections[i] \in Vectors
          BY <2>2, <4>2, SectionAt, SectionsAre
        <5> QED
          BY <3>1, <3>2, <3>5, <3>7, <4>2, <5>1
      <4> QED
        BY <4>1, <4>2
    <3> QED
      BY <1>9, <3>6, <3>7, SectionAt DEF AllRead
  <2> QED
    BY <1>5, <2>1, <2>2
<1> QED
  BY <1>3, <1>7, <1>10 DEF ReadInOrder

(* No step gets out of this order.                                         *)
LEMMA ReadInOrderStep == SectionsRead /\ ReadInOrder /\ [Next]_vars => ReadInOrder'
<1> SUFFICES ASSUME SectionsRead, ReadInOrder, [Next]_vars PROVE ReadInOrder'
  OBVIOUS
<1>1. CASE ReadSection
  BY <1>1, SectionComes
<1>2. CASE /\ UNCHANGED <<file, unread, parsed>>
           /\ stage' \in {"nodes", "domains", "loaded"} => unread = <<>>
  <2>1. \A i : Got(i)' = Got(i)
    BY <1>2 DEF Got, Declarations
  <2> QED
    BY <1>2, <2>1 DEF ReadInOrder, AllRead
<1>3. CASE ReadThrows \/ BuildIndexes \/ IndexNode \/ IndexThrows \/ NodesIndexed \/ IndexDomain \/ Loaded
  BY <1>2, <1>3
     DEF ReadInOrder, ReadThrows, BuildIndexes, IndexNode, IndexThrows, Indexing, NodesIndexed, IndexDomain, Loaded
<1>4. CASE UNCHANGED loader
  BY <1>2, <1>4 DEF loader, ReadInOrder
<1> QED
  BY <1>1, <1>3, <1>4
     DEF Next, Work, Load, LoadStep, CheckBandwidth, CheckServices, CheckLatency, Return, Report, Ended, vars

(* Once all sections have been read, the vectors are what the file         *)
(* declares.                                                               *)
LEMMA VectorsAreDeclared ==
    ASSUME ReadInOrder, stage \in {"nodes", "domains", "loaded"}
    PROVE  /\ Readable(file)
           /\ parsed.nodes = NodesOf(file)
           /\ parsed.links = Declarations(file, "links")
           /\ parsed.streams = Declarations(file, "streams")
           /\ parsed.multicast_groups = Declarations(file, "multicast_groups")
           /\ parsed.someip_services = Declarations(file, "someip_services")
           /\ parsed.domains = Declarations(file, "domains")
<1>1. unread = <<>> /\ Len(unread) = 0
  BY EmptySeq DEF ReadInOrder
<1>2. ASSUME NEW i \in 1..7 PROVE Got(i) = Declarations(file, Sections[i])
  BY <1>1 DEF Got
<1>3. Readable(file)
  <2>1. \A i \in 1..7 : Reading[file][Sections[i]] # {}
    BY <1>1 DEF ReadInOrder
  <2>2. DOMAIN Sections = 1..7
    BY DEF Sections
  <2> QED
    BY <2>1, <2>2 DEF Readable, Range
<1>4. /\ Got(1) = Declarations(file, "ecus") /\ Got(2) = Declarations(file, "nodes")
      /\ Got(3) = Declarations(file, "links") /\ Got(4) = Declarations(file, "streams")
      /\ Got(5) = Declarations(file, "multicast_groups")
      /\ Got(6) = Declarations(file, "someip_services") /\ Got(7) = Declarations(file, "domains")
  BY <1>2, SectionAt
<1> QED
  BY <1>3, <1>4 DEF ReadInOrder, AllRead, NodesOf

(* The ids of nodes that are indexed are distinct, and those of the ports  *)
(* of each.                                                                *)
LEMMA IndexedAreDistinct ==
    ASSUME SectionsRead, IndexedSoFar, stage \in {"domains", "loaded"}
    PROVE  /\ DistinctIds(parsed.nodes)
           /\ \A n \in Range(parsed.nodes) : DistinctIds(n.ports)
<1> DEFINE n == Len(parsed.nodes)
<1>1. NodesIn(n + 1) /\ PortsIn(n + 1)
  BY DEF IndexedSoFar
<1>2. /\ n \in Nat /\ (n + 1) - 1 = n /\ DOMAIN parsed.nodes = 1..n
      /\ \A i \in 1..n : DOMAIN parsed.nodes[i].ports = 1..Len(parsed.nodes[i].ports)
  BY NodesList
<1> HIDE DEF n
<1>3. DistinctIds(parsed.nodes)
  <2>1. \A i \in 1..n : node_index[parsed.nodes[i].id] = i
    BY <1>1, <1>2 DEF NodesIn
  <2> QED
    BY <1>2, <2>1 DEF DistinctIds
<1>4. ASSUME NEW i \in 1..n PROVE DistinctIds(parsed.nodes[i].ports)
  <2> DEFINE ps == parsed.nodes[i].ports
  <2> SUFFICES ASSUME NEW j \in DOMAIN ps, NEW k \in DOMAIN ps, ps[j].id = ps[k].id PROVE j = k
    BY DEF DistinctIds
  <2>1. PortName(i, j) = PortName(i, k)
    BY DEF PortName
  <2>2. /\ port_index[PortName(i, j)] = [node |-> i, port |-> j]
        /\ port_index[PortName(i, k)] = [node |-> i, port |-> k]
    BY <1>1, <1>2 DEF PortsIn
  <2>3. [node |-> i, port |-> j].port = j /\ [node |-> i, port |-> k].port = k
    OBVIOUS
  <2> QED
    BY <2>1, <2>2, <2>3
<1> QED
  BY <1>2, <1>3, <1>4 DEF Range

(* A file that is loaded can be read, and no id is there twice.            *)
LEMMA LoadedIsLegal ==
    ASSUME SectionsRead, ReadInOrder, IndexedSoFar, stage \in {"domains", "loaded"}
    PROVE  file \in Legal
<1>1. Readable(file) /\ parsed.nodes = NodesOf(file)
  BY VectorsAreDeclared
<1>2. file \in DOMAIN Documents
  BY DEF SectionsRead
<1> QED
  BY <1>1, <1>2, IndexedAreDistinct DEF Legal

-----------------------------------------------------------------------------
(* Of several domains that list a node, the last one before the k-th has   *)
(* it.                                                                     *)
DomainsIn(k) ==
    LET ds == parsed.domains IN
    /\ node_to_domain = [n \in DOMAIN node_to_domain |-> node_to_domain[n]]
    /\ \A n \in DOMAIN node_to_domain :
         \E i \in 1..(k - 1) : /\ n \in Range(ds[i].nodes)
                              /\ node_to_domain[n] = ds[i].id
                              /\ \A j \in (i + 1)..(k - 1) : n \notin Range(ds[j].nodes)
    /\ \A i \in 1..(k - 1) : Range(ds[i].nodes) \subseteq DOMAIN node_to_domain

(* How far that is at each stage.                                          *)
DomainsSoFar ==
    /\ stage \in {"read", "nodes"} => node_to_domain = <<>>
    /\ stage = "domains" => next \in 1..(Len(parsed.domains) + 1) /\ DomainsIn(next)
    /\ stage = "loaded" => DomainsIn(Len(parsed.domains) + 1)

(* A domain takes its nodes from those before it.                          *)
LEMMA DomainEntered ==
    ASSUME IndexDomain, next \in 1..Len(parsed.domains), Len(parsed.domains) \in Nat, DomainsIn(next)
    PROVE  DomainsIn(next)'
<1> DEFINE ds == parsed.domains
           N == Range(ds[next].nodes)
<1>1. /\ next \in Nat \ {0} /\ next' = next + 1 /\ parsed' = parsed
      /\ node_to_domain' = [n \in DOMAIN node_to_domain \cup N |->
                              IF n \in N THEN ds[next].id ELSE node_to_domain[n]]
  BY DEF IndexDomain, Domain
<1>2. (next + 1) - 1 = next
  BY <1>1
<1> HIDE DEF N
<1>3. ASSUME NEW n \in DOMAIN node_to_domain'
      PROVE  \E i \in 1..next : /\ n \in Range(ds[i].nodes)
                               /\ node_to_domain'[n] = ds[i].id
                               /\ \A j \in (i + 1)..next : n \notin Range(ds[j].nodes)
  <2>1. CASE n \in N
    <3>1. next \in 1..next /\ \A j \in (next + 1)..next : n \notin Range(ds[j].nodes)
      BY <1>1
    <3>2. n \in Range(ds[next].nodes) /\ node_to_domain'[n] = ds[next].id
      BY <1>1, <2>1 DEF N
    <3> QED
      BY <3>1, <3>2
  <2>2. CASE n \notin N
    <3>1. n \in DOMAIN node_to_domain /\ node_to_domain'[n] = node_to_domain[n]
      BY <1>1, <2>2
    <3>2. PICK i \in 1..(next - 1) : /\ n \in Range(ds[i].nodes)
                                    /\ node_to_domain[n] = ds[i].id
                                    /\ \A j \in (i + 1)..(next - 1) : n \notin Range(ds[j].nodes)
      BY <3>1 DEF DomainsIn
    <3>3. \A j \in (i + 1)..next : j \in (i + 1)..(next - 1) \/ j = next
      BY <1>1
    <3>4. \A j \in (i + 1)..next : n \notin Range(ds[j].nodes)
      BY <2>2, <3>2, <3>3 DEF N
    <3>5. i \in 1..next
      BY <1>1
    <3> QED
      BY <3>1, <3>2, <3>4, <3>5
  <2> QED
    BY <2>1, <2>2
<1>4. ASSUME NEW i \in 1..next PROVE Range(ds[i].nodes) \subseteq DOMAIN node_to_domain'
  <2>1. CASE i = next
    BY <1>1, <2>1 DEF N
  <2>2. CASE i # next
    <3>1. i \in 1..(next - 1)
      BY <1>1, <2>2
    <3> QED
      BY <1>1, <3>1 DEF DomainsIn
  <2> QED
    BY <2>1, <2>2
<1>5. node_to_domain' = [n \in DOMAIN node_to_domain' |-> node_to_domain'[n]]
  BY <1>1
<1>6. /\ \A n \in DOMAIN node_to_domain' :
           \E i \in 1..(next' - 1) : /\ n \in Range(parsed'.domains[i].nodes)
                                   /\ node_to_domain'[n] = parsed'.domains[i].id
                                   /\ \A j \in (i + 1)..(next' - 1) : n \notin Range(parsed'.domains[j].nodes)
      /\ \A i \in 1..(next' - 1) : Range(parsed'.domains[i].nodes) \subseteq DOMAIN node_to_domain'
  BY <1>1, <1>2, <1>3, <1>4
<1> QED
  BY <1>5, <1>6 DEF DomainsIn

(* The domains are a list.                                                 *)
LEMMA DomainsLen == SectionsRead => Len(parsed.domains) \in Nat
  BY SectionsAre, ListIs DEF SectionsRead, VectorsRead

(* Loading never loses track of the domains.                               *)
LEMMA DomainsStep == SectionsRead /\ DomainsSoFar /\ [Next]_vars => DomainsSoFar'
<1> SUFFICES ASSUME SectionsRead, DomainsSoFar, [Next]_vars PROVE DomainsSoFar'
  OBVIOUS
<1> DEFINE m == Len(parsed.domains)
<1>1. m \in Nat
  BY DomainsLen
<1>2. CASE ReadThrows \/ ReadSection \/ BuildIndexes \/ IndexNode \/ IndexThrows
  <2>1. /\ stage' \in {"read", "nodes", "threw"}
        /\ stage' # "threw" => stage \in {"read", "nodes"} /\ node_to_domain' = node_to_domain
    BY <1>2 DEF ReadThrows, ReadSection, BuildIndexes, IndexNode, IndexThrows, Indexing
  <2> QED
    BY <2>1 DEF DomainsSoFar
<1>3. CASE NodesIndexed
  <2>1. stage = "nodes" /\ stage' = "domains" /\ next' = 1 /\ UNCHANGED <<parsed, node_to_domain>>
    BY <1>3 DEF NodesIndexed
  <2>2. node_to_domain' = <<>> /\ DOMAIN node_to_domain' = {}
    BY <2>1, EmptySeq DEF DomainsSoFar
  <2>3. node_to_domain' = [n \in DOMAIN node_to_domain' |-> node_to_domain'[n]]
    <3>1. <<>> = [n \in DOMAIN <<>> |-> <<>>[n]]
      BY SeqDef
    <3> QED
      BY <2>2, <3>1
  <2>4. DomainsIn(next)'
    BY <2>1, <2>2, <2>3 DEF DomainsIn
  <2> QED
    BY <1>1, <2>1, <2>4 DEF DomainsSoFar
<1>4. CASE IndexDomain
  <2>1. stage = "domains" /\ stage' = "domains" /\ next <= m /\ next' = next + 1 /\ parsed' = parsed
    BY <1>4 DEF IndexDomain
  <2>2. next \in 1..m /\ DomainsIn(next)
    BY <1>1, <2>1 DEF DomainsSoFar
  <2>3. DomainsIn(next)'
    BY <1>1, <1>4, <2>2, DomainEntered
  <2>4. next' \in 1..(m + 1)
    BY <1>1, <2>1, <2>2
  <2> QED
    BY <2>1, <2>3, <2>4 DEF DomainsSoFar
<1>5. CASE Loaded
  <2>1. stage = "domains" /\ stage' = "loaded" /\ next > m /\ UNCHANGED <<parsed, node_to_domain, next>>
    BY <1>5 DEF Loaded
  <2>2. next = m + 1 /\ DomainsIn(next)
    BY <1>1, <2>1 DEF DomainsSoFar
  <2>3. DomainsIn(m + 1)'
    BY <2>1, <2>2 DEF DomainsIn
  <2> QED
    BY <2>1, <2>3 DEF DomainsSoFar
<1>6. CASE UNCHANGED loader
  BY <1>6 DEF loader, DomainsSoFar, DomainsIn
<1> QED
  BY <1>2, <1>3, <1>4, <1>5, <1>6
     DEF Next, Work, Load, LoadStep, CheckBandwidth, CheckServices, CheckLatency, Return, Report, Ended, vars

-----------------------------------------------------------------------------
(* The names of nodes and ports are among those that are told apart.       *)
LEMMA NamesCovered ==
    ASSUME SectionsRead, ReadInOrder, NEW i \in 1..Len(parsed.nodes)
    PROVE  /\ parsed.nodes[i].id \in Nodes
           /\ \A j \in 1..Len(parsed.nodes[i].ports) : parsed.nodes[i].ports[j].id \in Ports
<1> DEFINE HasNames(x) == x.id \in Nodes /\ \A j \in DOMAIN x.ports : x.ports[j].id \in Ports
<1>1. ASSUME NEW k \in 1..2 PROVE \A j \in 1..Len(Got(k)) : HasNames(Got(k)[j])
  <2>1. CASE k <= 7 - Len(unread)
    <3>1. Got(k) = Declarations(file, Sections[k]) /\ Reading[file][Sections[k]] # {}
      BY <2>1, UnreadLen DEF Got, ReadInOrder, SectionsRead
    <3>2. Got(k) \in Reading[file][Sections[k]]
      BY <3>1 DEF Declarations
    <3>3. Got(k) \in Reading[file].ecus \cup Reading[file].nodes
      BY <3>2, SectionAt
    <3>4. DOMAIN Got(k) = 1..Len(Got(k))
      BY GotList, ListIs
    <3> QED
      BY <3>3, <3>4, NamesType DEF SectionsRead
  <2>2. CASE ~(k <= 7 - Len(unread))
    BY <2>2, EmptySeq DEF Got
  <2> QED
    BY <2>1, <2>2
<1>2. \/ i \in 1..Len(Got(1)) /\ parsed.nodes[i] = Got(1)[i]
      \/ \E k \in 1..Len(Got(2)) : parsed.nodes[i] = Got(2)[k]
  <2>1. IsList(Got(1)) /\ IsList(Got(2))
    BY GotList
  <2>2. parsed.nodes = Got(1) \o Got(2)
    BY DEF ReadInOrder, AllRead
  <2> QED
    BY <2>1, <2>2, ListsJoin
<1>3. HasNames(parsed.nodes[i])
  BY <1>1, <1>2
<1> QED
  BY <1>3, NodesList

(* Of two entries with one id neither is lost in a file whose names can be *)
(* told apart: it is rejected only if an id is there twice.                *)
LEMMA DuplicateIsDeclared ==
    ASSUME SectionsRead, ReadInOrder, IndexedSoFar, Indexing, Duplicate
    PROVE  file \notin PlainNodes
<1> SUFFICES ASSUME file \in PlainNodes PROVE FALSE
  OBVIOUS
<1> DEFINE ns == parsed.nodes
           n == Len(ns)
<1>1. /\ DistinctIds(ns)
      /\ \A x \in Range(ns) : DistinctIds(x.ports) /\ Plain(x.id)
  BY VectorsAreDeclared DEF PlainNodes, Legal, Indexing
<1>2. NodesIn(next) /\ PortsIn(next) /\ next \in 1..n
  BY NodesList DEF IndexedSoFar, Indexing
<1>3. /\ n \in Nat /\ DOMAIN ns = 1..n
      /\ \A i \in 1..n : DOMAIN ns[i].ports = 1..Len(ns[i].ports)
  BY NodesList
<1> HIDE DEF n
<1>4. \A i \in 1..n : /\ ns[i].id \in {x \in Nodes : Plain(x)}
                      /\ \A j \in 1..Len(ns[i].ports) : ns[i].ports[j].id \in Ports
  BY <1>1, <1>3, NamesCovered DEF Range, n
<1>5. Node = ns[next]
  BY DEF Node
<1>6. ASSUME NEW i \in 1..n, NEW j \in 1..Len(ns[i].ports), NEW h \in 1..Len(ns[next].ports),
             PortName(i, j) = PortName(next, h)
      PROVE  i = next /\ ns[i].ports[j].id = ns[next].ports[h].id
  <2>1. ns[i].id = ns[next].id /\ ns[i].ports[j].id = ns[next].ports[h].id
    BY <1>2, <1>4, <1>6, KeysTellApart DEF PortName
  <2> QED
    BY <1>1, <1>2, <1>3, <2>1 DEF DistinctIds
<1>7. CASE Node.id \in DOMAIN node_index
  <2>1. /\ node_index[Node.id] \in 1..(next - 1)
        /\ ns[node_index[Node.id]].id = ns[next].id
    BY <1>2, <1>5, <1>7 DEF NodesIn
  <2>2. node_index[Node.id] \in 1..n /\ node_index[Node.id] # next
    BY <1>2, <1>3, <2>1
  <2> QED
    BY <1>1, <1>2, <1>3, <2>1, <2>2 DEF DistinctIds
<1>8. CASE \E j \in DOMAIN Node.ports : PortKeys(Node)[j] \in DOMAIN port_index
  <2>1. PICK h \in 1..Len(ns[next].ports) : PortName(next, h) \in DOMAIN port_index
    BY <1>2, <1>3, <1>5, <1>8 DEF PortKeys, PortName
  <2>2. PICK i \in 1..(next - 1) : \E j \in 1..Len(ns[i].ports) : PortName(next, h) = PortName(i, j)
    BY <1>2, <2>1 DEF PortsIn
  <2>3. i \in 1..n /\ i # next
    BY <1>2, <1>3
  <2> QED
    BY <1>6, <2>2, <2>3
<1>9. CASE \E j \in DOMAIN Node.ports : \E i \in 1..(j - 1) : PortKeys(Node)[i] = PortKeys(Node)[j]
  <2>1. PICK h \in 1..Len(ns[next].ports) : \E i \in 1..(h - 1) : PortKeys(Node)[i] = PortKeys(Node)[h]
    BY <1>2, <1>3, <1>5, <1>9
  <2>2. PICK i \in 1..(h - 1) : PortKeys(Node)[i] = PortKeys(Node)[h]
    BY <2>1
  <2>3. i \in 1..Len(ns[next].ports) /\ i # h
    BY <1>2, NodesList DEF n
  <2>4. PortName(next, i) = PortName(next, h)
    BY <1>2, <1>3, <1>5, <2>2, <2>3 DEF PortKeys, PortName
  <2>5. ns[next].ports[i].id = ns[next].ports[h].id /\ DistinctIds(ns[next].ports)
    BY <1>1, <1>2, <1>3, <1>6, <2>3, <2>4 DEF Range
  <2> QED
    BY <1>2, <1>3, <2>3, <2>5 DEF DistinctIds
<1> QED
  BY <1>7, <1>8, <1>9 DEF Duplicate

(* A file that is rejected is not legal, or has a name with a separator.   *)
RejectedRightly == stage = "threw" => file \notin PlainNodes

(* There are two ways to be rejected.                                      *)
LEMMA RejectedStep ==
    SectionsRead /\ ReadInOrder /\ IndexedSoFar /\ RejectedRightly /\ [Next]_vars => RejectedRightly'
<1> SUFFICES ASSUME SectionsRead, ReadInOrder, IndexedSoFar, RejectedRightly, [Next]_vars
             PROVE  RejectedRightly'
  OBVIOUS
<1>1. CASE ReadThrows
  <2>1. Head(unread) \in Range(Sections) /\ Reading[file][Head(unread)] = {}
    BY <1>1, NextSection DEF ReadThrows, SectionsRead
  <2>2. file \notin PlainNodes /\ file' = file
    BY <1>1, <2>1 DEF PlainNodes, Legal, Readable, ReadThrows
  <2> QED
    BY <2>2 DEF RejectedRightly
<1>2. CASE IndexThrows
  <2>1. file \notin PlainNodes /\ file' = file
    BY <1>2, DuplicateIsDeclared DEF IndexThrows
  <2> QED
    BY <2>1 DEF RejectedRightly
<1>3. CASE ReadSection \/ BuildIndexes \/ IndexNode \/ NodesIndexed \/ IndexDomain \/ Loaded
  BY <1>3 DEF ReadSection, BuildIndexes, IndexNode, Indexing, NodesIndexed, IndexDomain, Loaded, RejectedRightly
<1>4. CASE UNCHANGED loader
  BY <1>4 DEF loader, RejectedRightly
<1> QED
  BY <1>1, <1>2, <1>3, <1>4
     DEF Next, Work, Load, LoadStep, CheckBandwidth, CheckServices, CheckLatency, Return, Report, Ended, vars

-----------------------------------------------------------------------------
(* A loaded file.                                                          *)
(* To tabulate a function does not change it.                              *)
LEMMA TabulatedIs ==
    ASSUME NEW fun
    PROVE  Tabulated(fun) = fun
  BY DEF Tabulated

(* Looking for an id of a list finds the entry that has it.                *)
LEMMA CalledIs ==
    ASSUME NEW s, DistinctIds(s), NEW i \in DOMAIN s
    PROVE  Called(s, s[i].id) = s[i]
<1>1. s[i] \in Range(s)
  BY DEF Range
<1>2. \A x \in Range(s) : x.id = s[i].id => x = s[i]
  BY DEF DistinctIds, Range
<1> QED
  BY <1>1, <1>2 DEF Called

LoadedPlain == /\ SectionsRead /\ ReadInOrder /\ IndexedSoFar /\ DomainsSoFar
               /\ stage = "loaded"
               /\ file \in PlainNodes

(* The nodes of such a file are found by their names.                      *)
LEMMA LoadedNodes ==
    ASSUME LoadedPlain
    PROVE  LET ns == parsed.nodes IN
           /\ ns = NodesOf(file)
           /\ DOMAIN ns = 1..Len(ns)
           /\ \A i \in 1..Len(ns) :
                /\ DOMAIN ns[i].ports = 1..Len(ns[i].ports)
                /\ Plain(ns[i].id) /\ ns[i].id \in Nodes
                /\ Called(ns, ns[i].id) = ns[i]
                /\ \A j \in 1..Len(ns[i].ports) : /\ ns[i].ports[j].id \in Ports
                                                  /\ Called(ns[i].ports, ns[i].ports[j].id) = ns[i].ports[j]
           /\ NodesIn(Len(ns) + 1) /\ PortsIn(Len(ns) + 1)
           /\ (Len(ns) + 1) - 1 = Len(ns)
<1> DEFINE ns == parsed.nodes
           n == Len(ns)
<1>1. SectionsRead /\ ReadInOrder /\ IndexedSoFar /\ stage = "loaded" /\ file \in PlainNodes
  BY DEF LoadedPlain
<1>2. ns = NodesOf(file) /\ \A x \in Range(ns) : Plain(x.id)
  BY <1>1, VectorsAreDeclared DEF PlainNodes
<1>3. DistinctIds(ns) /\ \A x \in Range(ns) : DistinctIds(x.ports)
  BY <1>1, IndexedAreDistinct
<1>4. NodesIn(n + 1) /\ PortsIn(n + 1)
  BY <1>1 DEF IndexedSoFar
<1>5. /\ n \in Nat /\ DOMAIN ns = 1..n
      /\ \A i \in 1..n : DOMAIN ns[i].ports = 1..Len(ns[i].ports)
  BY <1>1, NodesList
<1>6. \A i \in 1..n : ns[i].id \in Nodes /\ \A j \in 1..Len(ns[i].ports) : ns[i].ports[j].id \in Ports
  BY <1>1, NamesCovered
<1> HIDE DEF n
<1>7. ASSUME NEW i \in 1..n
      PROVE  /\ Plain(ns[i].id) /\ Called(ns, ns[i].id) = ns[i]
             /\ \A j \in 1..Len(ns[i].ports) : Called(ns[i].ports, ns[i].ports[j].id) = ns[i].ports[j]
  <2>1. ns[i] \in Range(ns)
    BY <1>5 DEF Range
  <2> QED
    BY <1>2, <1>3, <1>5, <2>1, CalledIs
<1>8. (n + 1) - 1 = n
  BY <1>5
<1> QED
  BY <1>2, <1>4, <1>5, <1>6, <1>7, <1>8 DEF n

(* The types that are found through node_index.                            *)
LEMMA TypesAreDeclared ==
    ASSUME LoadedPlain
    PROVE  [n \in DOMAIN node_index |-> parsed.nodes[node_index[n]].type]
             = [n \in {m.id : m \in Range(NodesOf(file))} |-> Called(NodesOf(file), n).type]
<1> DEFINE ns == parsed.nodes
           n == Len(ns)
<1>1. /\ ns = NodesOf(file) /\ DOMAIN ns = 1..n
      /\ NodesIn(n + 1) /\ (n + 1) - 1 = n
      /\ \A i \in 1..n : Called(ns, ns[i].id) = ns[i]
  BY LoadedNodes
<1> HIDE DEF n
<1>2. \A x \in DOMAIN node_index : node_index[x] \in 1..n /\ ns[node_index[x]].id = x
  BY <1>1 DEF NodesIn
<1>3. \A i \in 1..n : ns[i].id \in DOMAIN node_index
  BY <1>1 DEF NodesIn
<1>4. DOMAIN node_index = {m.id : m \in Range(ns)}
  <2>1. Range(ns) = {ns[i] : i \in 1..n}
    BY <1>1 DEF Range
  <2>2. ASSUME NEW x \in DOMAIN node_index PROVE x \in {m.id : m \in Range(ns)}
    <3>1. ns[node_index[x]] \in Range(ns) /\ ns[node_index[x]].id = x
      BY <1>2, <2>1
    <3> QED
      BY <3>1
  <2>3. ASSUME NEW m \in Range(ns) PROVE m.id \in DOMAIN node_index
    BY <1>3, <2>1
  <2> QED
    BY <2>2, <2>3
<1>5. \A x \in DOMAIN node_index : ns[node_index[x]].type = Called(ns, x).type
  BY <1>1, <1>2
<1> QED
  BY <1>1, <1>4, <1>5

(* The ports that are found through port_index.                            *)
LEMMA PortsAreDeclared ==
    ASSUME LoadedPlain
    PROVE  [h \in {g \in {x \in Hop : HasPort(x)} : Plain(g.node)} |-> PortOf(h)]
             = [h \in UNION {{[node |-> n.id, port |-> p.id] : p \in Range(n.ports)} : n \in Range(NodesOf(file))} |->
                  Called(Called(NodesOf(file), h.node).ports, h.port)]
<1> DEFINE ns == parsed.nodes
           n == Len(ns)
           A == {g \in {x \in Hop : HasPort(x)} : Plain(g.node)}
           B == UNION {{[node |-> m.id, port |-> p.id] : p \in Range(m.ports)} : m \in Range(ns)}
<1>1. /\ ns = NodesOf(file) /\ DOMAIN ns = 1..n
      /\ PortsIn(n + 1) /\ (n + 1) - 1 = n
      /\ \A i \in 1..n :
           /\ DOMAIN ns[i].ports = 1..Len(ns[i].ports)
           /\ Plain(ns[i].id) /\ ns[i].id \in Nodes
           /\ Called(ns, ns[i].id) = ns[i]
           /\ \A j \in 1..Len(ns[i].ports) : /\ ns[i].ports[j].id \in Ports
                                             /\ Called(ns[i].ports, ns[i].ports[j].id) = ns[i].ports[j]
  BY LoadedNodes
<1> HIDE DEF n
<1>2. ASSUME NEW h \in A
      PROVE  h \in B /\ PortOf(h) = Called(Called(ns, h.node).ports, h.port)
  <2>1. h \in Hop /\ Key(h.node, h.port) \in DOMAIN port_index /\ Plain(h.node)
    BY DEF HasPort
  <2>2. PICK i \in 1..n : \E j \in 1..Len(ns[i].ports) :
          port_index[Key(h.node, h.port)] = [node |-> i, port |-> j] /\ Key(h.node, h.port) = PortName(i, j)
    BY <1>1, <2>1 DEF PortsIn
  <2>3. PICK j \in 1..Len(ns[i].ports) :
          port_index[Key(h.node, h.port)] = [node |-> i, port |-> j] /\ Key(h.node, h.port) = PortName(i, j)
    BY <2>2
  <2>4. h.node \in Nodes /\ h.port \in Ports /\ h = [node |-> h.node, port |-> h.port]
    BY <2>1 DEF Hop
  <2>5. h.node = ns[i].id /\ h.port = ns[i].ports[j].id
    BY <1>1, <2>1, <2>3, <2>4, KeysTellApart DEF PortName
  <2>6. PortOf(h) = ns[i].ports[j]
    BY <2>3 DEF PortOf
  <2>7. ns[i] \in Range(ns) /\ ns[i].ports[j] \in Range(ns[i].ports)
    BY <1>1 DEF Range
  <2>8. h \in B
    BY <2>4, <2>5, <2>7
  <2> QED
    BY <1>1, <2>5, <2>6, <2>8
<1>3. ASSUME NEW h \in B
      PROVE  h \in A
  <2>1. PICK m \in Range(ns) : \E p \in Range(m.ports) : h = [node |-> m.id, port |-> p.id]
    OBVIOUS
  <2>2. PICK i \in 1..n : m = ns[i]
    BY <1>1 DEF Range
  <2>3. PICK j \in 1..Len(ns[i].ports) : h = [node |-> ns[i].id, port |-> ns[i].ports[j].id]
    BY <1>1, <2>1, <2>2 DEF Range
  <2>4. h \in Hop /\ Plain(h.node) /\ Key(h.node, h.port) = PortName(i, j)
    BY <1>1, <2>3 DEF Hop, PortName
  <2>5. PortName(i, j) \in DOMAIN port_index
    <3>1. \A x \in 1..n : \A y \in 1..Len(ns[x].ports) : PortName(x, y) \in DOMAIN port_index
      BY <1>1 DEF PortsIn
    <3> QED
      BY <3>1
  <2>6. HasPort(h)
    BY <2>4, <2>5 DEF HasPort
  <2> QED
    BY <2>4, <2>6
<1> HIDE DEF A, B
<1>4. A = B
  BY <1>2, <1>3
<1>5. [h \in A |-> PortOf(h)] = [h \in B |-> Called(Called(ns, h.node).ports, h.port)]
  BY <1>2, <1>4
<1> QED
  BY <1>1, <1>5 DEF A, B

(* The domains that are found through node_to_domain.                      *)
LEMMA DomainsAreDeclared ==
    ASSUME LoadedPlain
    PROVE  LET ds == Declarations(file, "domains") IN
           node_to_domain = [n \in UNION {Range(m.nodes) : m \in Range(ds)} |-> DomainOf(ds, n)]
<1> DEFINE ds == parsed.domains
           k == Len(ds)
<1>1. SectionsRead /\ ReadInOrder /\ DomainsSoFar /\ stage = "loaded"
  BY DEF LoadedPlain
<1>2. ds = Declarations(file, "domains")
  BY <1>1, VectorsAreDeclared
<1>3. k \in Nat /\ DOMAIN ds = 1..k /\ (k + 1) - 1 = k
  BY <1>1, SectionsAre, ListIs DEF SectionsRead, VectorsRead
<1>4. DomainsIn(k + 1)
  BY <1>1 DEF DomainsSoFar
<1> HIDE DEF k
<1>5. /\ node_to_domain = [n \in DOMAIN node_to_domain |-> node_to_domain[n]]
      /\ \A n \in DOMAIN node_to_domain :
           \E i \in 1..k : /\ n \in Range(ds[i].nodes)
                          /\ node_to_domain[n] = ds[i].id
                          /\ \A j \in (i + 1)..k : n \notin Range(ds[j].nodes)
      /\ \A i \in 1..k : Range(ds[i].nodes) \subseteq DOMAIN node_to_domain
  BY <1>3, <1>4 DEF DomainsIn
<1>6. DOMAIN node_to_domain = UNION {Range(m.nodes) : m \in Range(ds)}
  <2>1. Range(ds) = {ds[i] : i \in 1..k}
    BY <1>3 DEF Range
  <2>2. ASSUME NEW n \in DOMAIN node_to_domain PROVE n \in UNION {Range(m.nodes) : m \in Range(ds)}
    <3>1. PICK i \in 1..k : n \in Range(ds[i].nodes)
      BY <1>5
    <3>2. ds[i] \in Range(ds)
      BY <2>1
    <3> QED
      BY <3>1, <3>2
  <2>3. ASSUME NEW m \in Range(ds) PROVE Range(m.nodes) \subseteq DOMAIN node_to_domain
    <3>1. PICK i \in 1..k : m = ds[i]
      BY <2>1
    <3> QED
      BY <1>5, <3>1
  <2> QED
    BY <2>2, <2>3
<1>7. ASSUME NEW n \in DOMAIN node_to_domain PROVE node_to_domain[n] = DomainOf(ds, n)
  <2> DEFINE S == {i \in DOMAIN ds : n \in Range(ds[i].nodes)}
  <2>1. PICK i \in 1..k : /\ n \in Range(ds[i].nodes)
                         /\ node_to_domain[n] = ds[i].id
                         /\ \A j \in (i + 1)..k : n \notin Range(ds[j].nodes)
    BY <1>5
  <2>2. i \in S /\ S \subseteq 1..k
    BY <1>3, <2>1
  <2>3. \A j \in S : i >= j
    BY <1>3, <2>1
  <2> HIDE DEF S
  <2>4. Max(S) = i
    <3>1. \A x \in S : (\A y \in S : x >= y) => x = i
      BY <2>2, <2>3
    <3> QED
      BY <2>2, <2>3, <3>1 DEF Max
  <2> QED
    BY <2>1, <2>4 DEF DomainOf, S
<1> QED
  BY <1>2, <1>5, <1>6, <1>7

(* All that the rules look up.                                             *)
LEMMA LoadedIsDeclared ==
    ASSUME LoadedPlain
    PROVE  PlainLookups(Indexed) = Declared[file]
<1> DEFINE D == Declaration(file)
           I == Indexed
<1>1. SectionsRead /\ ReadInOrder /\ IndexedSoFar /\ stage = "loaded" /\ file \in Legal
  BY DEF LoadedPlain, PlainNodes
<1>2. Declared[file] = Declaration(file)
  BY <1>1, TabulatedIs DEF Declared
<1>3. /\ parsed.links = Declarations(file, "links")
      /\ parsed.streams = Declarations(file, "streams")
      /\ parsed.multicast_groups = Declarations(file, "multicast_groups")
      /\ parsed.someip_services = Declarations(file, "someip_services")
  BY <1>1, VectorsAreDeclared
<1>4. Indexed.port = [h \in {g \in Hop : HasPort(g)} |-> PortOf(h)]
  BY TabulatedIs DEF Indexed
<1>5. Restrict(Indexed.port, {h \in DOMAIN Indexed.port : Plain(h.node)})
        = [h \in {g \in {x \in Hop : HasPort(x)} : Plain(g.node)} |-> PortOf(h)]
  BY <1>4 DEF Restrict
<1>6. PlainLookups(Indexed) = [links    |-> parsed.links,
                               streams  |-> parsed.streams,
                               type     |-> [n \in DOMAIN node_index |-> parsed.nodes[node_index[n]].type],
                               port     |-> [h \in {g \in {x \in Hop : HasPort(x)} : Plain(g.node)} |-> PortOf(h)],
                               domain   |-> node_to_domain,
                               groups   |-> Range(parsed.multicast_groups),
                               services |-> parsed.someip_services]
  <2> DEFINE P == Indexed.port
             Q == [h \in {g \in {x \in Hop : HasPort(x)} : Plain(g.node)} |-> PortOf(h)]
             T == [n \in DOMAIN node_index |-> parsed.nodes[node_index[n]].type]
  <2>1. Tabulated(T) = T /\ P = Tabulated([h \in {g \in Hop : HasPort(g)} |-> PortOf(h)])
    BY TabulatedIs DEF Indexed
  <2>2. Indexed = [links |-> parsed.links, streams |-> parsed.streams, type |-> T, port |-> P,
                   domain |-> node_to_domain, groups |-> Range(parsed.multicast_groups),
                   services |-> parsed.someip_services]
    BY <2>1 DEF Indexed
  <2>3. PlainLookups(Indexed) = [Indexed EXCEPT !.port = Q]
    BY <1>5 DEF PlainLookups
  <2> HIDE DEF P, Q, T
  <2>4. [Indexed EXCEPT !.port = Q]
          = [links |-> parsed.links, streams |-> parsed.streams, type |-> T, port |-> Q,
             domain |-> node_to_domain, groups |-> Range(parsed.multicast_groups),
             services |-> parsed.someip_services]
    BY <2>2
  <2> QED
    BY <2>3, <2>4 DEF Q, T
<1> QED
  BY <1>2, <1>3, <1>6, TypesAreDeclared, PortsAreDeclared, DomainsAreDeclared, TabulatedIs DEF Declaration

(* A file is loaded when it is legal and only then, and the rules find in  *)
(* it what it declares, if no name holds the separator.                    *)
THEOREM FindsDeclared == Spec => []LookupsFindDeclared
<1> DEFINE IInv == ReadInOrder /\ DomainsSoFar /\ RejectedRightly
<1>1. Init => IInv
  BY InitReadInOrder DEF Init, LoadInit, DomainsSoFar, RejectedRightly
<1>2. SectionsRead /\ IndexedSoFar /\ IInv /\ [Next]_vars => IInv'
  BY ReadInOrderStep, DomainsStep, RejectedStep
<1>3. SectionsRead /\ IndexedSoFar /\ IInv => LookupsFindDeclared
  <2> SUFFICES ASSUME SectionsRead, IndexedSoFar, IInv PROVE LookupsFindDeclared
    OBVIOUS
  <2>1. stage = "loaded" => file \in Legal
    BY LoadedIsLegal
  <2>2. stage = "loaded" /\ file \in PlainNodes => PlainLookups(Indexed) = Declared[file]
    BY LoadedIsDeclared DEF LoadedPlain
  <2> QED
    BY <2>1, <2>2 DEF LookupsFindDeclared, RejectedRightly
<1> QED
  BY <1>1, <1>2, <1>3, AlwaysIndexed, PTL DEF Spec

-----------------------------------------------------------------------------
(* The loops of the rules.                                                 *)

LEMMA AskedList == IsList(Asked)
<1>1. Asked \in [1..3 -> Range(Asked)]
  BY DEF Asked, Range
<1> QED
  BY <1>1, NumberedIsList

(* The paths of a stream are those of a list of links, over declared ports *)
(* or not.                                                                 *)
LEMMA StreamPaths ==
    ASSUME SectionsRead, NEW k \in 1..Len(parsed.streams), NEW s, s = parsed.streams[k]
    PROVE  AllPaths(Indexed, s) \subseteq Seq(Crossing)
<1> DEFINE L == parsed.links
<1>1. s.src \in Nodes /\ s.dsts \subseteq Nodes /\ L \in LinkLists /\ L \in Seq(Link)
  BY LinkListsType DEF SectionsRead, VectorsRead, IsStreamOf
<1>2. Indexed.links = L
  BY DEF Indexed
<1> HIDE DEF L
<1>3. ASSUME NEW d \in s.dsts PROVE Paths(Indexed, s, d) = SimplePaths(L, s.src, d)
  BY <1>1, <1>2 DEF Paths, PathTable
<1>4. ASSUME NEW d \in s.dsts, NEW p \in Paths(Indexed, s, d) PROVE p \in Seq(Crossing)
  <2>1. d \in Nodes /\ p \in SimplePaths(L, s.src, d)
    BY <1>1, <1>3
  <2> QED
    BY <1>1, <2>1, SimplePathType
<1> QED
  BY <1>4 DEF AllPaths

(* A path as the program has it is a list of hops.                         *)
LEMMA HopsList ==
    ASSUME NEW p \in Seq(Crossing)
    PROVE  Hops(p) \in Seq(Hop) /\ Len(Hops(p)) \in Nat
<1> DEFINE n == Len(p)
<1>0. n \in Nat /\ \A c \in 1..n : p[c] \in Crossing
  BY LenProperties, ElementOfSeq
<1>1. n \in Nat /\ \A c \in 1..n : p[c].exit \in Hop /\ p[c].entry \in Hop
  BY <1>0 DEF Crossing
<1>2. \A k \in 1..(2 * n) : Hops(p)[k] \in Hop
  BY <1>1, HopsAre
<1>3. DOMAIN Hops(p) = 1..(2 * n) /\ Hops(p) = [k \in 1..(2 * n) |-> Hops(p)[k]]
  BY DEF Hops
<1> HIDE DEF n
<1>4. 2 * n \in Nat
  BY <1>1
<1>5. Hops(p) \in [1..(2 * n) -> Hop]
  BY <1>2, <1>3
<1>6. Hops(p) \in Seq(Hop)
  BY <1>4, <1>5, SeqDef
<1> QED
  BY <1>6, LenProperties

(* The loops stay within the lists they go through; a sum stays in its     *)
(* word.                                                                   *)
Walking == /\ at \in Nat
           /\ paths \subseteq Seq(Crossing)
           /\ path \in Seq(Hop)
           /\ hop \in 0..(Len(path) + 1)

Tallied == /\ checked \subseteq DOMAIN port_bandwidth
           /\ total_delay_ns \in 0..(Config.word - 1)

InOrder == /\ stage \in {"read", "nodes", "domains", "loaded", "threw"}
           /\ IsEnd(todo, Asked)
           /\ reported => stage = "loaded"

(* The moves of the walk.                                                  *)
LEMMA StreamEntered ==
    ASSUME SectionsRead, Walking, NEW relevant, EnterStream(relevant)
    PROVE  Walking'
<1> DEFINE s == parsed.streams[at + 1]
<1>1. /\ at \in Nat /\ at < Len(parsed.streams)
      /\ at' = at + 1
      /\ paths' = IF s \in relevant THEN AllPaths(Indexed, s) ELSE {}
      /\ UNCHANGED <<path, hop>>
  BY DEF Walking, EnterStream
<1>2. Len(parsed.streams) \in Nat
  BY SectionsAre, ListIs DEF SectionsRead, VectorsRead
<1>3. at + 1 \in 1..Len(parsed.streams)
  BY <1>1, <1>2
<1>4. AllPaths(Indexed, s) \subseteq Seq(Crossing)
  BY <1>3, StreamPaths
<1> HIDE DEF s
<1> QED
  BY <1>1, <1>4 DEF Walking

LEMMA WalkGoesOn ==
    ASSUME Walking, EnterPath \/ NextHop \/ BreakPath \/ LeavePath
    PROVE  Walking'
<1>1. CASE EnterPath
  <2>1. PICK p \in paths : path' = Hops(p) /\ paths' = paths \ {p}
    BY <1>1 DEF EnterPath
  <2>2. path' \in Seq(Hop) /\ Len(path') \in Nat
    BY <2>1, HopsList DEF Walking
  <2>3. hop' = 1 /\ at' = at
    BY <1>1 DEF EnterPath
  <2>4. hop' \in 0..(Len(path') + 1)
    BY <2>2, <2>3
  <2> QED
    BY <2>1, <2>2, <2>3, <2>4 DEF Walking
<1>2. CASE NextHop \/ BreakPath
  <2>1. UNCHANGED <<at, paths, path>> /\ hop \in 1..Len(path) /\ hop' \in {hop + 1, Len(path) + 1}
    BY <1>2 DEF NextHop, BreakPath, OnHop
  <2>2. Len(path) \in Nat
    BY LenProperties DEF Walking
  <2>3. hop' \in 0..(Len(path) + 1)
    BY <2>1, <2>2
  <2> QED
    BY <2>1, <2>3 DEF Walking
<1>3. CASE LeavePath
  <2>1. UNCHANGED <<at, paths>> /\ hop' = 0 /\ path' = <<>>
    BY <1>3 DEF LeavePath
  <2>2. path' \in Seq(Hop) /\ Len(path') = 0
    BY <2>1, EmptySeq
  <2>3. hop' \in 0..(Len(path') + 1)
    BY <2>1, <2>2
  <2> QED
    BY <2>1, <2>2, <2>3 DEF Walking
<1> QED
  BY <1>1, <1>2, <1>3
(* The next rule begins with nothing.                                      *)
LEMMA CalledAfresh ==
    ASSUME Config.word \in Nat \ {0}, CallNext
    PROVE  Walking' /\ Tallied'
<1>1. path' \in Seq(Hop) /\ Len(path') = 0
  BY EmptySeq DEF CallNext
<1>2. hop' \in 0..(Len(path') + 1)
  BY <1>1 DEF CallNext
<1> QED
  BY <1>1, <1>2 DEF CallNext, Walking, Tallied

(* What is found in an index is a port of the file.                        *)
LEMMA PortFound ==
    ASSUME SectionsRead, IndexedSoFar, NEW h, HasPort(h)
    PROVE  IsTimedPort(PortOf(h))
<1> DEFINE p == PortOf(h)
           key == Key(h.node, h.port)
<1>1. PICK k \in 1..(Len(parsed.nodes) + 1) : PortsIn(k)
  BY DEF IndexedSoFar
<1>2. key \in DOMAIN port_index
  BY DEF HasPort
<1>3. p = parsed.nodes[port_index[key].node].ports[port_index[key].port]
  BY DEF PortOf
<1> HIDE DEF key, p
<1>4. PICK i \in 1..(k - 1) : \E j \in 1..Len(parsed.nodes[i].ports) : port_index[key] = [node |-> i, port |-> j]
  BY <1>1, <1>2 DEF PortsIn
<1>5. \E j \in 1..Len(parsed.nodes[i].ports) : p = parsed.nodes[i].ports[j]
  BY <1>3, <1>4
<1>6. i \in 1..Len(parsed.nodes)
  BY <1>4, NodesList
<1>7. IsTimedPort(p)
  BY <1>5, <1>6 DEF SectionsRead, VectorsRead, IsNode
<1> QED
  BY <1>7 DEF p

(* The delay of a switch, as the code and as the reference has it.         *)
LEMMA DelayIs ==
    ASSUME SectionsRead, IndexedSoFar, NEW h, HasPort(h), NEW c \in PortOf(h).cbs_a, c.idle > 0
    PROVE  /\ Config.frame_ns_kbps \div c.idle \in Nat
           /\ DelayAt(h) = Config.frame_ns_kbps \div c.idle + Config.prop_delay_ns
           /\ DelayAt(h) \in Int
<1>1. IsTimedPort(PortOf(h))
  BY PortFound
<1>2. c.idle \in Nat \ {0} /\ (CHOOSE x \in PortOf(h).cbs_a : TRUE) = c
  BY <1>1 DEF IsTimedPort
<1>3. \A x \in Nat, y \in Nat \ {0} : x \div y \in Nat
  OBVIOUS
<1>4. Config.frame_ns_kbps \div c.idle \in Nat
  BY <1>2, <1>3, ConfigType
<1>5. DelayAt(h) = Config.frame_ns_kbps \div c.idle + Config.prop_delay_ns
  BY <1>2 DEF DelayAt
<1> DEFINE f == Config.frame_ns_kbps \div c.idle
<1>6. f + Config.prop_delay_ns \in Int
  <2> HIDE DEF f
  <2>1. f \in Nat
    BY <1>4 DEF f
  <2> QED
    BY <2>1, ConfigType
<1> QED
  BY <1>4, <1>5, <1>6

(* A switch that is timed adds its delay, up to whole words.               *)
LEMMA SumFits ==
    ASSUME SectionsRead, IndexedSoFar, Tallied, TimeHop
    PROVE  /\ DelayAt(Here) \in Int
           /\ total_delay_ns' = (total_delay_ns + DelayAt(Here)) % Config.word
           /\ total_delay_ns' \in 0..(Config.word - 1)
<1> DEFINE p == PortOf(Here)
<1>1. HasPort(Here) /\ Timed(p) /\ AddDelay(p)
  BY DEF TimeHop
<1>2. IsTimedPort(p)
  BY <1>1, PortFound
<1>3. PICK c \in p.cbs_a : total_delay_ns' =
        (total_delay_ns + Config.frame_ns_kbps \div c.idle + Config.prop_delay_ns) % Config.word
  BY <1>1 DEF AddDelay
<1>4. c.idle > 0
  BY <1>1, <1>2, <1>3 DEF Timed, IsTimedPort
<1> DEFINE f == Config.frame_ns_kbps \div c.idle
<1>5. f \in Nat /\ DelayAt(Here) = f + Config.prop_delay_ns /\ DelayAt(Here) \in Int
  BY <1>1, <1>3, <1>4, DelayIs
<1>6. total_delay_ns' = (total_delay_ns + f + Config.prop_delay_ns) % Config.word
  BY <1>3
<1> HIDE DEF f, p
<1>7. /\ Config.word \in Nat \ {0} /\ total_delay_ns \in Int /\ Config.prop_delay_ns \in Int
      /\ total_delay_ns + f + Config.prop_delay_ns = total_delay_ns + DelayAt(Here)
  BY <1>5, ConfigType DEF Tallied
<1>8. total_delay_ns' = (total_delay_ns + DelayAt(Here)) % Config.word
  BY <1>6, <1>7
<1>9. \A x \in Int, y \in Nat \ {0} : x % y \in 0..(y - 1)
  OBVIOUS
<1>10. total_delay_ns + DelayAt(Here) \in Int
  BY <1>5, <1>7
<1> QED
  BY <1>5, <1>7, <1>8, <1>9, <1>10

(* Every step keeps the loops within their lists.                          *)
LEMMA LoopsStep ==
    SectionsRead /\ IndexedSoFar /\ Walking /\ Tallied /\ InOrder /\ [Next]_vars
      => Walking' /\ Tallied' /\ InOrder'
<1> SUFFICES ASSUME SectionsRead, IndexedSoFar, Walking, Tallied, InOrder, [Next]_vars
             PROVE  Walking' /\ Tallied' /\ InOrder'
  OBVIOUS
<1>0. Config.word \in Nat \ {0}
  BY ConfigType
<1>1. CASE Load
  <2>1. UNCHANGED rules
    BY <1>1 DEF Load
  <2>2. Walking' /\ Tallied'
    BY <2>1 DEF rules, walk, bandwidth, latency, Walking, Tallied
  <2>3. stage # "loaded" /\ stage' \in {"read", "nodes", "domains", "loaded", "threw"}
    BY <1>1 DEF Load, LoadStep, ReadThrows, ReadSection, BuildIndexes, IndexNode, Indexing, IndexThrows,
                NodesIndexed, IndexDomain, Loaded
  <2> QED
    BY <2>1, <2>2, <2>3 DEF InOrder, rules
<1>2. CASE CheckBandwidth
  <2>1. UNCHANGED <<todo, stage, reported, total_delay_ns>>
    BY <1>2 DEF CheckBandwidth, loader, latency
  <2>2. Walking'
    <3>1. CASE EnterReserving
      BY <3>1, StreamEntered DEF EnterReserving
    <3>2. CASE EnterReservedPath \/ PassHop \/ CountHop \/ LeaveReservedPath
      BY <3>2, WalkGoesOn DEF EnterReservedPath, PassHop, CountHop, LeaveReservedPath
    <3>3. CASE CheckPort
      BY <3>3 DEF CheckPort, walk, Walking
    <3> QED
      BY <1>2, <3>1, <3>2, <3>3 DEF CheckBandwidth, BandwidthStep
  <2>3. checked' \subseteq DOMAIN port_bandwidth'
    <3>1. CASE CountHop
      BY <3>1 DEF CountHop, Add, Enter, Tallied
    <3>2. CASE CheckPort
      BY <3>2 DEF CheckPort, Tallied
    <3>3. CASE EnterReserving \/ EnterReservedPath \/ PassHop \/ LeaveReservedPath
      BY <3>3 DEF EnterReserving, EnterReservedPath, PassHop, LeaveReservedPath, bandwidth, Tallied
    <3> QED
      BY <1>2, <3>1, <3>2, <3>3 DEF CheckBandwidth, BandwidthStep
  <2> QED
    BY <2>1, <2>2, <2>3 DEF Tallied, InOrder
<1>3. CASE CheckServices
  <2>1. UNCHANGED <<todo, stage, reported, total_delay_ns, checked, port_bandwidth, paths, path, hop>> /\ at' = at + 1
    BY <1>3 DEF CheckServices, ServiceStep, CheckService, loader, latency, bandwidth
  <2> QED
    BY <2>1 DEF Walking, Tallied, InOrder
<1>4. CASE CheckLatency
  <2>1. UNCHANGED <<todo, stage, reported, checked, port_bandwidth>>
    BY <1>4 DEF CheckLatency, loader, bandwidth
  <2>2. Walking'
    <3>1. CASE EnterBudgeted
      BY <3>1, StreamEntered DEF EnterBudgeted
    <3>2. CASE EnterTimedPath \/ Pass \/ CountUnknown \/ TimeHop \/ GiveUp \/ JudgePath
      BY <3>2, WalkGoesOn DEF EnterTimedPath, Pass, CountUnknown, TimeHop, GiveUp, JudgePath
    <3> QED
      BY <1>4, <3>1, <3>2 DEF CheckLatency, LatencyStep
  <2>3. total_delay_ns' \in 0..(Config.word - 1)
    <3>1. CASE TimeHop
      BY <3>1, SumFits
    <3>2. CASE EnterBudgeted \/ EnterTimedPath \/ Pass \/ CountUnknown \/ GiveUp \/ JudgePath
      <4>1. total_delay_ns' \in {0, total_delay_ns}
        BY <3>2 DEF EnterBudgeted, EnterTimedPath, Pass, CountUnknown, GiveUp, JudgePath, latency
      <4> QED
        BY <1>0, <4>1 DEF Tallied
    <3> QED
      BY <1>4, <3>1, <3>2 DEF CheckLatency, LatencyStep
  <2> QED
    BY <2>1, <2>2, <2>3 DEF Tallied, InOrder
<1>5. CASE Return
  <2>1. todo # <<>> /\ todo' = Tail(todo) /\ UNCHANGED <<stage, reported>>
    BY <1>5 DEF Return, BandwidthDone, ServiceDone, LatencyDone, Running, loader
  <2>2. IsEnd(todo', Asked)
    BY <2>1, AskedList, NextOfEnd DEF InOrder
  <2> QED
    BY <1>0, <1>5, <2>1, <2>2, CalledAfresh DEF Return, InOrder
<1>6. CASE Report
  BY <1>6 DEF Report, loader, walk, bandwidth, latency, Walking, Tallied, InOrder
<1>7. CASE UNCHANGED vars
  BY <1>7 DEF vars, rules, loader, walk, bandwidth, latency, Walking, Tallied, InOrder
<1> QED
  BY <1>1, <1>2, <1>3, <1>4, <1>5, <1>6, <1>7 DEF Next, Work, Ended

LEMMA AlwaysInOrder == Spec => [](Walking /\ Tallied /\ InOrder)
<1>1. Init => Walking /\ Tallied /\ InOrder
  <2> SUFFICES ASSUME Init PROVE Walking /\ Tallied /\ InOrder
    OBVIOUS
  <2>1. path \in Seq(Hop) /\ Len(path) = 0
    BY EmptySeq DEF Init, Fresh
  <2>2. hop \in 0..(Len(path) + 1)
    BY <2>1 DEF Init, Fresh
  <2>3. Config.word \in Nat \ {0}
    BY ConfigType
  <2>4. IsEnd(todo, Asked)
    BY AskedList, WholeIsEnd DEF Init
  <2> QED
    BY <2>1, <2>2, <2>3, <2>4 DEF Init, LoadInit, Fresh, Walking, Tallied, InOrder
<1> QED
  BY <1>1, LoopsStep, AlwaysIndexed, PTL DEF Spec

(* The variables keep their types, for every collection of files: an index *)
(* holds positions in the vectors, a walk stays within its path, and a sum *)
(* in its word.                                                            *)
THEOREM TypeCorrect == Spec => []TypeOK
<1>1. SectionsRead /\ IndexedSoFar /\ Walking /\ Tallied /\ InOrder => TypeOK
  <2> SUFFICES ASSUME SectionsRead, IndexedSoFar, Walking, Tallied, InOrder PROVE TypeOK
    OBVIOUS
  <2>1. IsSuffix(unread, Sections) /\ IsSuffix(todo, Asked)
    BY SectionsList, AskedList, EndIsSuffix DEF SectionsRead, Unread, InOrder
  <2>2. PICK k \in 1..(Len(parsed.nodes) + 1) : NodesIn(k) /\ PortsIn(k)
    BY DEF IndexedSoFar
  <2>3. 1..(k - 1) \subseteq DOMAIN parsed.nodes
    BY NodesList
  <2>4. Range(node_index) \subseteq DOMAIN parsed.nodes
    BY <2>2, <2>3 DEF NodesIn, Range
  <2>5. ASSUME NEW key \in DOMAIN port_index
        PROVE  /\ port_index[key].node \in DOMAIN parsed.nodes
               /\ port_index[key].port \in DOMAIN parsed.nodes[port_index[key].node].ports
    <3>1. PICK i \in 1..(k - 1) : \E j \in 1..Len(parsed.nodes[i].ports) : port_index[key] = [node |-> i, port |-> j]
      BY <2>2 DEF PortsIn
    <3>2. i \in DOMAIN parsed.nodes /\ DOMAIN parsed.nodes[i].ports = 1..Len(parsed.nodes[i].ports)
      BY <2>3, NodesList
    <3> QED
      BY <3>1, <3>2
  <2>6. Range(path) \subseteq Hop
    BY ElementOfSeq DEF Walking, Range
  <2>7. DOMAIN parsed = Vectors
    BY DEF SectionsRead, VectorsRead
  <2> QED
    BY <2>1, <2>4, <2>5, <2>6, <2>7 DEF TypeOK, SectionsRead, Walking, Tallied, InOrder
<1> QED
  BY <1>1, AlwaysInOrder, AlwaysIndexed, PTL
-----------------------------------------------------------------------------
(* LAT001 reports what is late.                                            *)

(* The hops of a path, as a list and as a set.                             *)
LEMMA HopsCover ==
    ASSUME NEW p \in Seq(Crossing)
    PROVE  /\ \A k \in 1..Len(Hops(p)) : Hops(p)[k] \in PathHops(p)
           /\ \A h \in PathHops(p) : \E k \in 1..Len(Hops(p)) : Hops(p)[k] = h
           /\ \A h \in PathHops(p) : h.node \in Nodes
           /\ Len(Hops(p)) \in Nat
<1> DEFINE n == Len(p)
           f == Hops(p)
<1>1. n \in Nat /\ \A c \in 1..n : p[c] \in Crossing
  BY LenProperties, ElementOfSeq
<1>2. \A c \in 1..n : p[c].exit.node \in Nodes /\ p[c].entry.node \in Nodes
  BY <1>1 DEF Crossing, Hop
<1>3. Len(f) = 2 * n
  <2>1. DOMAIN f = 1..(2 * n) /\ f \in Seq(Hop)
    BY HopsList DEF Hops
  <2>2. DOMAIN f = 1..Len(f) /\ Len(f) \in Nat /\ 2 * n \in Nat
    BY <1>1, <2>1, LenProperties
  <2> HIDE DEF f, n
  <2> QED
    BY <2>1, <2>2
<1>4. ASSUME NEW k \in 1..Len(f) PROVE f[k] \in PathHops(p)
  <2>1. \E c \in 1..n : f[k] \in {p[c].exit, p[c].entry}
    BY <1>1, <1>3, HopsAre
  <2> QED
    BY <2>1 DEF PathHops
<1>5. ASSUME NEW c \in 1..n
      PROVE  /\ \E k \in 1..Len(f) : f[k] = p[c].exit
             /\ \E k \in 1..Len(f) : f[k] = p[c].entry
  <2>1. /\ 2 * c - 1 \in 1..(2 * n) /\ (2 * c - 1) % 2 = 1 /\ ((2 * c - 1) + 1) \div 2 = c
        /\ 2 * c \in 1..(2 * n) /\ (2 * c) % 2 = 0 /\ (2 * c) \div 2 = c
    BY <1>1
  <2>2. f[2 * c - 1] = p[c].exit /\ f[2 * c] = p[c].entry
    BY <2>1 DEF Hops
  <2> QED
    BY <1>3, <2>1, <2>2
<1>6. ASSUME NEW h \in PathHops(p)
      PROVE  (\E k \in 1..Len(f) : f[k] = h) /\ h.node \in Nodes
  <2>1. PICK c \in 1..n : h = p[c].exit \/ h = p[c].entry
    BY DEF PathHops
  <2> QED
    BY <1>2, <1>5, <2>1
<1> QED
  BY <1>1, <1>3, <1>4, <1>6

(* A path meets a node first at a hop no earlier one of which is there.    *)
LEMMA FirstHopIs ==
    ASSUME NEW p \in Seq(Crossing), NEW k \in 1..Len(Hops(p)),
           \A j \in 1..(k - 1) : Hops(p)[j].node # Hops(p)[k].node
    PROVE  FirstHop(p, Hops(p)[k].node) = Hops(p)[k]
<1> DEFINE f == Hops(p)
           n == f[k].node
           FirstAt(i) == f[i].node = n /\ \A j \in 1..(i - 1) : f[j].node # n
<1>1. Len(f) \in Nat
  BY HopsCover
<1>2. FirstHop(p, n) = f[CHOOSE i \in 1..Len(f) : FirstAt(i)]
  BY DEF FirstHop
<1> HIDE DEF f
<1>3. FirstAt(k)
  BY DEF f
<1>4. ASSUME NEW i \in 1..Len(f), FirstAt(i) PROVE i = k
  <2>1. ~(i < k) /\ ~(k < i)
    BY <1>3, <1>4 DEF f
  <2> QED
    BY <2>1 DEF f
<1>5. (CHOOSE i \in 1..Len(f) : FirstAt(i)) = k
  <2> HIDE DEF FirstAt
  <2> QED
    BY <1>3, <1>4 DEF f
<1> QED
  BY <1>2, <1>5 DEF f

(* Every node of a path is met first somewhere.                            *)
LEMMA FirstHopExists ==
    ASSUME NEW p \in Seq(Crossing), NEW h \in PathHops(p)
    PROVE  FirstHop(p, h.node) \in PathHops(p) /\ FirstHop(p, h.node).node = h.node
<1> DEFINE f == Hops(p)
           K == {k \in 1..Len(f) : f[k].node = h.node}
<1>1. K # {} /\ K \subseteq Nat
  BY HopsCover
<1>2. PICK m \in K : \A k \in K : m <= k
  BY <1>1, SmallestOf
<1>3. m \in 1..Len(f) /\ f[m].node = h.node /\ Len(f) \in Nat
  BY <1>2, HopsCover
<1>4. \A j \in 1..(m - 1) : f[j].node # h.node
  BY <1>2, <1>3
<1>5. FirstHop(p, h.node) = f[m]
  BY <1>3, <1>4, FirstHopIs
<1> QED
  BY <1>3, <1>5, HopsCover

(* The exact delay of a path that can be timed is a sum of whole numbers.  *)
LEMMA ExactIs ==
    ASSUME SectionsRead, IndexedSoFar, NEW p \in Seq(Crossing), Timeable(p)
    PROVE  /\ ExactDelay(p) = Total(Delays(p), VisitedBy(p))
           /\ IsFiniteSet(VisitedBy(p))
           /\ \A n \in VisitedBy(p) : Delays(p)[n] \in Int
<1>1. ExactDelay(p) = Total(Delays(p), VisitedBy(p))
  BY DEF ExactDelay, Total
<1>2. VisitedBy(p) \subseteq Nodes
  BY HopsCover DEF VisitedBy
<1>3. IsFiniteSet(VisitedBy(p))
  BY <1>2, NodesFinite, FS_Subset
<1>4. ASSUME NEW n \in VisitedBy(p) PROVE Delays(p)[n] \in Int
  <2> DEFINE h == FirstHop(p, n)
  <2>1. h \in PathHops(p) /\ h.node = n
    BY FirstHopExists DEF VisitedBy
  <2>2. n \in Nodes /\ TypeFound(n) # {"ECU"}
    BY <1>2 DEF VisitedBy
  <2>3. HasPort(h) /\ Timed(PortOf(h))
    BY <2>1, <2>2 DEF Timeable
  <2>4. DelayAt(h) \in Int
    BY <2>3, DelayIs DEF Timed
  <2> QED
    BY <2>4 DEF Delays
<1> QED
  BY <1>1, <1>3, <1>4

(* A number in a word is what it is up to whole words.                     *)
LEMMA Division ==
    ASSUME NEW w \in Nat \ {0}, NEW z \in Int
    PROVE  z = w * (z \div w) + (z % w) /\ z \div w \in Int /\ z % w \in Int
<1>1. z = w * (z \div w) + (z % w)
  OBVIOUS
<1>2. z \div w \in Int
  OBVIOUS
<1>3. z % w \in Int
  OBVIOUS
<1> QED
  BY <1>1, <1>2, <1>3

LEMMA WordStep ==
    ASSUME NEW w \in Nat \ {0}, NEW x \in Int, NEW a \in Int, NEW d \in Int, NEW q \in Int,
           x = a + q * w
    PROVE  \E r \in Int : x + d = ((a + d) % w) + r * w
<1> DEFINE y == a + d
           e == y \div w
           m == y % w
<1>1. y \in Int
  OBVIOUS
<1>2. y = w * e + m /\ e \in Int /\ m \in Int
  <2> HIDE DEF y
  <2> QED
    BY <1>1, Division
<1> HIDE DEF e, m
<1>3. (q + e) * w = q * w + w * e /\ q * w \in Int /\ w * e \in Int
  BY <1>2
<1>4. x + d = y + q * w
  BY <1>3
<1>5. x + d = m + (q + e) * w
  <2> DEFINE s == q * w
             t == w * e
  <2>1. x + d = y + s /\ y = t + m /\ (q + e) * w = s + t
    BY <1>2, <1>3, <1>4
  <2>2. s \in Int /\ t \in Int
    BY <1>3
  <2> HIDE DEF s, t, y
  <2> QED
    BY <1>1, <1>2, <2>1, <2>2
<1>6. \E r \in Int : x + d = m + r * w
  <2>1. q + e \in Int
    BY <1>2
  <2> DEFINE r == q + e
  <2>2. r \in Int /\ x + d = m + r * w
    BY <1>5, <2>1
  <2> HIDE DEF r, m
  <2> QED
    BY <2>2
<1> QED
  BY <1>6 DEF m

LEMMA WordOnce ==
    ASSUME NEW w \in Nat \ {0}, NEW a \in 0..(w - 1), NEW x \in 0..(w - 1), NEW q \in Int, x = a + q * w
    PROVE  x = a
<1>1. CASE q >= 1
  <2>1. q * w >= w
    BY <1>1
  <2> QED
    BY <2>1
<1>2. CASE q <= -1
  <2>1. q * w <= -w
    BY <1>2
  <2> QED
    BY <2>1
<1>3. CASE q = 0
  BY <1>3
<1> QED
  BY <1>1, <1>2, <1>3
(* The switches a walk along a path has come by.                           *)
Before(p) == {Hops(p)[j].node : j \in 1..(hop - 1)} \cap VisitedBy(p)

(* Those have been counted, and their exact delays make up the sum, but    *)
(* for whole words.                                                        *)
Summed(p) ==
    /\ path_coherent
    /\ counted_switches = Before(p)
    /\ \E q \in Int : Total(Delays(p), Before(p)) = total_delay_ns + q * Config.word

Along(p) == hop # 0 /\ path = Hops(p) /\ Timeable(p)

Summing == Running("LAT001") => \A p \in Seq(Crossing) : Along(p) => Summed(p)

(* What was loaded is there to stay.                                       *)
LEMMA LoadedStays ==
    ASSUME UNCHANGED loader
    PROVE  /\ \A h : HasPort(h)' = HasPort(h) /\ PortOf(h)' = PortOf(h)
           /\ \A n : TypeFound(n)' = TypeFound(n)
           /\ \A p : /\ Timeable(p)' = Timeable(p)
                     /\ VisitedBy(p)' = VisitedBy(p)
                     /\ Delays(p)' = Delays(p)
                     /\ ExactDelay(p)' = ExactDelay(p)
           /\ \A s : AllPaths(Indexed, s)' = AllPaths(Indexed, s)
           /\ WithBudget' = WithBudget
           /\ parsed' = parsed
<1>1. parsed' = parsed /\ port_index' = port_index /\ node_index' = node_index
  BY DEF loader
<1>2. \A h : HasPort(h)' = HasPort(h) /\ PortOf(h)' = PortOf(h)
  BY <1>1 DEF HasPort, PortOf
<1>3. \A n : TypeFound(n)' = TypeFound(n)
  BY <1>1 DEF TypeFound
<1>4. ASSUME NEW p
      PROVE  /\ Timeable(p)' = Timeable(p)
             /\ VisitedBy(p)' = VisitedBy(p)
             /\ Delays(p)' = Delays(p)
             /\ ExactDelay(p)' = ExactDelay(p)
  <2>1. Timeable(p)' = Timeable(p)
    BY <1>2, <1>3 DEF Timeable
  <2>2. VisitedBy(p)' = VisitedBy(p)
    BY <1>3 DEF VisitedBy
  <2>3. \A h : DelayAt(h)' = DelayAt(h)
    BY <1>2 DEF DelayAt
  <2>4. Delays(p)' = Delays(p)
    BY <2>2, <2>3 DEF Delays
  <2>5. ExactDelay(p)' = ExactDelay(p)
    BY <2>2, <2>4 DEF ExactDelay, MapThenSumSet, MapThenFoldSet
  <2> QED
    BY <2>1, <2>2, <2>4, <2>5
<1>5. ASSUME NEW s PROVE AllPaths(Indexed, s)' = AllPaths(Indexed, s)
  <2>1. Indexed.links = parsed.links /\ Indexed'.links = parsed'.links
    BY DEF Indexed
  <2> QED
    BY <1>1, <2>1 DEF AllPaths, Paths
<1>6. WithBudget' = WithBudget
  BY <1>1 DEF WithBudget
<1> QED
  BY <1>1, <1>2, <1>3, <1>4, <1>5, <1>6

(* A path that is entered has come by nothing.                             *)
LEMMA EnterKeepsSum ==
    ASSUME UNCHANGED loader, EnterTimedPath, NEW p, Timeable(p)
    PROVE  Summed(p)'
<1>1. hop' = 1 /\ counted_switches' = {} /\ total_delay_ns' = 0 /\ path_coherent' = TRUE
  BY DEF EnterTimedPath, EnterPath
<1>2. Before(p)' = {}
  BY <1>1 DEF Before
<1>3. Total(Delays(p), {}) = 0
  BY TotalEmpty
<1>4. Delays(p)' = Delays(p)
  BY LoadedStays
<1>5. Total(Delays(p), Before(p))' = 0
  BY <1>2, <1>3, <1>4
<1>6. Config.word \in Nat \ {0} /\ 0 = 0 + 0 * Config.word
  BY ConfigType
<1> QED
  BY <1>1, <1>2, <1>5, <1>6 DEF Summed

(* A hop that passes adds nothing.                                         *)
LEMMA PassKeepsSum ==
    ASSUME UNCHANGED loader, Walking, Pass, NEW p \in Seq(Crossing), Along(p), Summed(p)
    PROVE  Summed(p)'
<1>1. /\ hop \in 1..Len(path) /\ hop' = hop + 1 /\ UNCHANGED <<path, latency>> /\ ~Counts
  BY DEF Pass, NextHop, OnHop
<1>2. path = Hops(p) /\ Here = Hops(p)[hop] /\ Here \in PathHops(p)
  BY <1>1, HopsCover DEF Along, Here
<1>3. Named(Here)
  BY <1>2 DEF Along, Timeable
<1>4. Here.node \notin VisitedBy(p) \/ Here.node \in Before(p)
  <2>1. TypeFound(Here.node) = {"ECU"} \/ Here.node \in counted_switches
    BY <1>1, <1>3 DEF Counts, Named
  <2>2. Here.node \in Nodes
    BY <1>2, HopsCover
  <2> QED
    BY <2>1, <2>2 DEF Summed, VisitedBy
<1>5. hop \in Nat \ {0}
  BY <1>1, <1>2, HopsCover
<1>6. \A j : j \in 1..(hop' - 1) <=> j \in 1..(hop - 1) \/ j = hop
  BY <1>1, <1>5
<1>7. Before(p)' = Before(p)
  <2>1. VisitedBy(p)' = VisitedBy(p)
    BY LoadedStays
  <2> QED
    BY <1>2, <1>4, <1>6, <2>1 DEF Before
<1>8. Delays(p)' = Delays(p)
  BY LoadedStays
<1> QED
  BY <1>1, <1>7, <1>8 DEF Summed, latency

(* A hop that is timed adds the delay of its node.                         *)
LEMMA TimeKeepsSum ==
    ASSUME UNCHANGED loader, SectionsRead, IndexedSoFar, Walking, Tallied, TimeHop,
           NEW p \in Seq(Crossing), Along(p), Summed(p)
    PROVE  Summed(p)'
<1> DEFINE f == Hops(p)
           n == Here.node
           V == VisitedBy(p)
<1>1. /\ hop \in 1..Len(path) /\ hop' = hop + 1 /\ UNCHANGED <<path, path_coherent>> /\ Counts
      /\ counted_switches' = counted_switches \cup {n}
  BY DEF TimeHop, NextHop, OnHop, Remember
<1>2. path = f /\ Here = f[hop] /\ Here \in PathHops(p) /\ n \in Nodes
  BY <1>1, HopsCover DEF Along, Here
<1>3. n \notin counted_switches /\ n \in V
  BY <1>1, <1>2 DEF Counts, VisitedBy
<1>4. n \notin Before(p) /\ counted_switches = Before(p)
  BY <1>3 DEF Summed
<1>5. hop \in 1..Len(f) /\ hop \in Nat \ {0}
  BY <1>1, <1>2, HopsCover
<1>6. FirstHop(p, n) = Here
  <2>1. \A j \in 1..(hop - 1) : f[j].node # f[hop].node
    BY <1>2, <1>3, <1>4 DEF Before
  <2> QED
    BY <1>2, <1>5, <2>1, FirstHopIs
<1>7. Delays(p)[n] = DelayAt(Here)
  BY <1>3, <1>6 DEF Delays
<1>8. Before(p)' = Before(p) \cup {n}
  <2>1. VisitedBy(p)' = V
    BY LoadedStays
  <2>2. \A j : j \in 1..(hop' - 1) <=> j \in 1..(hop - 1) \/ j = hop
    BY <1>1, <1>5
  <2> QED
    BY <1>2, <1>3, <2>1, <2>2 DEF Before
<1> HIDE DEF n, V
<1>9. /\ Total(Delays(p), Before(p) \cup {n}) = Delays(p)[n] + Total(Delays(p), Before(p))
      /\ Total(Delays(p), Before(p)) \in Int
  <2>1. IsFiniteSet(V) /\ \A m \in V : Delays(p)[m] \in Int
    BY ExactIs DEF Along, V
  <2>2. Before(p) \in SUBSET V /\ n \in V \ Before(p)
    BY <1>3, <1>4 DEF Before, V
  <2> QED
    BY <2>1, <2>2, TotalAdd, TotalInt
<1>10. PICK q \in Int : Total(Delays(p), Before(p)) = total_delay_ns + q * Config.word
  BY DEF Summed
<1> DEFINE x == Total(Delays(p), Before(p))
           d == DelayAt(Here)
<1>11. \E r \in Int : x + d = ((total_delay_ns + d) % Config.word) + r * Config.word
  <2>1. d \in Int /\ Config.word \in Nat \ {0} /\ total_delay_ns \in Int
    BY SumFits, ConfigType DEF Tallied
  <2>2. x \in Int /\ x = total_delay_ns + q * Config.word
    BY <1>9, <1>10
  <2> DEFINE w == Config.word
             t == total_delay_ns
  <2>3. w \in Nat \ {0} /\ t \in Int /\ q \in Int /\ x = t + q * w
    BY <1>10, <2>1, <2>2
  <2>4. \E r \in Int : x + d = ((t + d) % w) + r * w
    <3> HIDE DEF x, d, w, t
    <3>1. \A b, c, e, k \in Int : b = c + k * w => \E r \in Int : b + e = ((c + e) % w) + r * w
      BY <2>3, WordStep
    <3>2. d \in Int /\ x \in Int
      BY <2>1, <2>2
    <3>3. \A c, e, k \in Int : x = c + k * w => \E r \in Int : x + e = ((c + e) % w) + r * w
      BY <3>1, <3>2, Zenon
    <3>4. \A e, k \in Int : x = t + k * w => \E r \in Int : x + e = ((t + e) % w) + r * w
      BY <2>3, <3>3, Zenon
    <3>5. \A k \in Int : x = t + k * w => \E r \in Int : x + d = ((t + d) % w) + r * w
      BY <3>2, <3>4, Zenon
    <3> QED
      BY <2>3, <3>5, Zenon
  <2> QED
    BY <2>4
<1>12. \E r \in Int : Total(Delays(p), Before(p))' = total_delay_ns' + r * Config.word
  <2>1. total_delay_ns' = (total_delay_ns + d) % Config.word /\ d \in Int
    BY SumFits
  <2>2. Delays(p)' = Delays(p)
    BY LoadedStays
  <2>3. Total(Delays(p), Before(p))' = d + x
    BY <1>7, <1>8, <1>9, <2>2
  <2>4. x \in Int
    BY <1>9
  <2> HIDE DEF x, d
  <2>5. d + x = x + d
    BY <2>1, <2>4
  <2> QED
    BY <1>11, <2>1, <2>3, <2>5
<1>13. path_coherent' /\ counted_switches' = Before(p)'
  BY <1>1, <1>4, <1>8 DEF Summed, n
<1> QED
  BY <1>12, <1>13 DEF Summed
(* As long as LAT001 runs, what it has come by has been counted.           *)
LEMMA SummingStep ==
    ASSUME UNCHANGED loader, SectionsRead, IndexedSoFar, Walking, Tallied, Summing,
           Running("LAT001"), LatencyStep, NEW p \in Seq(Crossing), Along(p)'
    PROVE  Summed(p)'
<1>1. Timeable(p)
  BY LoadedStays DEF Along
<1>2. ASSUME NextHop PROVE Along(p) /\ Summed(p)
  <2>1. hop \in 1..Len(path) /\ path' = path
    BY <1>2 DEF NextHop, OnHop
  <2>2. hop # 0
    BY <2>1
  <2> QED
    BY <1>1, <2>1, <2>2 DEF Along, Summing
<1>3. ASSUME Along(p), OnHop, Counts PROVE HasPort(Here) /\ Timed(PortOf(Here))
  <2>1. Here \in PathHops(p)
    BY <1>3, HopsCover DEF Along, OnHop, Here
  <2> QED
    BY <1>1, <1>3, <2>1 DEF Timeable, Counts
<1>4. CASE EnterBudgeted
  BY <1>4 DEF EnterBudgeted, EnterStream, Walked, Along
<1>5. CASE EnterTimedPath
  BY <1>1, <1>5, EnterKeepsSum
<1>6. CASE Pass
  BY <1>2, <1>6, PassKeepsSum DEF Pass
<1>7. CASE CountUnknown
  BY <1>2, <1>3, <1>7 DEF CountUnknown
<1>8. CASE TimeHop
  BY <1>2, <1>8, TimeKeepsSum DEF TimeHop
<1>9. CASE GiveUp
  <2>1. hop \in 1..Len(path) /\ path' = path
    BY <1>9 DEF GiveUp, BreakPath, OnHop
  <2>2. hop # 0
    BY <2>1
  <2>3. Along(p)
    BY <1>1, <2>1, <2>2 DEF Along
  <2> QED
    BY <1>3, <1>9, <2>3 DEF GiveUp
<1>10. CASE JudgePath
  BY <1>10 DEF JudgePath, LeavePath, Along
<1> QED
  BY <1>4, <1>5, <1>6, <1>7, <1>8, <1>9, <1>10 DEF LatencyStep

(* More than so many whole units is more than so many units.               *)
LEMMA MoreUnits ==
    ASSUME NEW t \in Int, NEW b \in Nat, NEW u \in Nat \ {0}, t >= (b + 1) * u
    PROVE  t \div u > b
<1> DEFINE e == t \div u
           m == t % u
<1>1. t = u * e + m /\ e \in Int
  BY Division
<1>2. m \in 0..(u - 1)
  OBVIOUS
<1> HIDE DEF e, m
<1>3. SUFFICES ASSUME e <= b PROVE FALSE
  BY <1>1 DEF e
<1>4. u * e <= u * b
  <2>1. b - e \in Nat /\ u * (b - e) >= 0
    BY <1>1, <1>3
  <2>2. u * (b - e) = u * b - u * e
    BY <1>1
  <2>3. u * b \in Int /\ u * e \in Int
    BY <1>1
  <2> QED
    BY <2>1, <2>2, <2>3
<1>5. (b + 1) * u = u * b + u /\ u * b \in Int /\ u * e \in Int
  BY <1>1
<1> DEFINE x == u * b
           y == u * e
<1>6. t = y + m /\ y <= x /\ t >= x + u /\ x \in Int /\ y \in Int
  BY <1>1, <1>4, <1>5
<1> HIDE DEF x, y
<1> QED
  BY <1>2, <1>6

(* A late path is reported when its last hop is behind.                    *)
LEMMA Judged ==
    ASSUME SectionsRead, IndexedSoFar, Tallied, JudgePath, at \in 1..Len(parsed.streams),
           NEW p \in Seq(Crossing), Along(p), Summed(p), TooLate(Stream, p)
    PROVE  Lateness(Stream, p) \in violations'
<1>1. Before(p) = VisitedBy(p)
  <2>1. hop = Len(Hops(p)) + 1 /\ Len(Hops(p)) \in Nat
    BY HopsCover DEF JudgePath, LeavePath, AfterHops, Along
  <2>2. (Len(Hops(p)) + 1) - 1 = Len(Hops(p))
    BY <2>1
  <2>3. \A n \in VisitedBy(p) : \E j \in 1..Len(Hops(p)) : Hops(p)[j].node = n
    BY HopsCover DEF VisitedBy
  <2> QED
    BY <2>1, <2>2, <2>3 DEF Before
<1>2. ExactDelay(p) = Total(Delays(p), VisitedBy(p))
  BY ExactIs DEF Along
<1>3. PICK q \in Int : ExactDelay(p) = total_delay_ns + q * Config.word
  BY <1>1, <1>2 DEF Summed
<1> DEFINE w == Config.word
           u == Config.ns_per_us
           b == Stream.budget_us
           x == ExactDelay(p)
           t == total_delay_ns
<1>4. w \in Nat \ {0} /\ u \in Nat \ {0} /\ t \in 0..(w - 1)
  BY ConfigType DEF Tallied
<1>5. b \in Nat
  BY DEF SectionsRead, VectorsRead, IsStreamOf, Stream
<1>6. x \in ((b + 1) * u)..(w - 1) /\ x = t + q * w
  BY <1>3 DEF TooLate
<1>7. t \div u > b /\ x = t
  <2> HIDE DEF w, u, b, x, t
  <2>1. (b + 1) * u \in Nat
    BY <1>4, <1>5
  <2> DEFINE m == (b + 1) * u
  <2>2. m \in Nat /\ x \in m..(w - 1)
    BY <1>6, <2>1
  <2>3. x \in 0..(w - 1) /\ x >= m
    <3> HIDE DEF m
    <3> QED
      BY <1>4, <2>2
  <2>4. x = t
    <3>1. \A a, y \in 0..(w - 1) : \A k \in Int : y = a + k * w => y = a
      BY <1>4, WordOnce
    <3> QED
      BY <1>4, <1>6, <2>3, <3>1
  <2>5. t \in Int /\ t >= (b + 1) * u
    BY <1>4, <2>3, <2>4
  <2> QED
    BY <1>4, <1>5, <2>4, <2>5, MoreUnits
<1>8. path_coherent /\ TotalUs > Stream.budget_us
  BY <1>7 DEF Summed, TotalUs
<1>9. Violation("ERROR", "LAT001", Stream.id, NoName, NoName, TotalUs) \in violations'
  BY <1>8 DEF JudgePath, When
<1> QED
  BY <1>7, <1>9 DEF Lateness, TotalUs

(* Every path LAT001 has come to is settled, or it is the one that is      *)
(* being walked, or still to be walked.                                    *)
Settled(s, p) == Timeable(p) /\ TooLate(s, p) => Lateness(s, p) \in violations

Ahead(p) == p \in paths \/ (hop # 0 /\ path = Hops(p))

Pending ==
    Running("LAT001") =>
      /\ at <= Len(parsed.streams)
      /\ \A i \in 1..at : parsed.streams[i] \in WithBudget =>
           \A p \in AllPaths(Indexed, parsed.streams[i]) :
             Settled(parsed.streams[i], p) \/ (i = at /\ Ahead(p))

LEMMA SettledStays ==
    ASSUME UNCHANGED loader, violations \subseteq violations', NEW s, NEW p, Settled(s, p)
    PROVE  Settled(s, p)'
<1>1. Timeable(p)' = Timeable(p) /\ ExactDelay(p)' = ExactDelay(p)
  BY LoadedStays
<1>2. TooLate(s, p)' = TooLate(s, p) /\ Lateness(s, p)' = Lateness(s, p)
  BY <1>1 DEF TooLate, Lateness
<1> QED
  BY <1>1, <1>2 DEF Settled

LEMMA PendingStep ==
    ASSUME UNCHANGED <<loader, todo>>, SectionsRead, IndexedSoFar, Walking, Tallied, Summing, Pending,
           Running("LAT001"), LatencyStep
    PROVE  Pending'
<1> DEFINE S == parsed.streams
<1>1. /\ at \in Nat /\ at <= Len(S) /\ Len(S) \in Nat
      /\ \A i \in 1..at : S[i] \in WithBudget =>
           \A p \in AllPaths(Indexed, S[i]) : Settled(S[i], p) \/ (i = at /\ Ahead(p))
  BY SectionsAre, ListIs DEF Pending, Walking, SectionsRead, VectorsRead
<1>2. /\ parsed' = parsed /\ WithBudget' = WithBudget
      /\ \A s : AllPaths(Indexed, s)' = AllPaths(Indexed, s)
  BY LoadedStays
<1>3. SUFFICES ASSUME violations \subseteq violations',
                      NEW i \in 1..at', NEW s, s = S[i], s \in WithBudget, NEW p \in AllPaths(Indexed, s)
               PROVE  Settled(s, p)' \/ (i = at' /\ Ahead(p)')
  <2>1. violations \subseteq violations' /\ at' <= Len(S)
    <3>1. CASE EnterBudgeted
      BY <1>1, <3>1 DEF EnterBudgeted, EnterStream
    <3>2. CASE ~EnterBudgeted
      BY <1>1, <3>2 DEF LatencyStep, EnterTimedPath, EnterPath, Pass, CountUnknown, TimeHop, GiveUp,
                        JudgePath, NextHop, BreakPath, LeavePath
    <3> QED
      BY <3>1, <3>2
  <2> QED
    BY <1>2, <1>3, <2>1 DEF Pending
<1>4. Settled(s, p) => Settled(s, p)'
  BY <1>3, SettledStays
<1>5. CASE EnterBudgeted
  <2>1. /\ hop = 0 /\ paths = {} /\ at' = at + 1
        /\ S[at + 1] \in WithBudget => paths' = AllPaths(Indexed, S[at + 1])
    BY <1>5 DEF EnterBudgeted, EnterStream, Walked
  <2>2. CASE i = at + 1
    BY <1>3, <2>1, <2>2 DEF Ahead
  <2>3. CASE i # at + 1
    <3>1. i \in 1..at
      BY <1>1, <2>1, <2>3
    <3> QED
      BY <1>1, <1>3, <1>4, <2>1, <3>1 DEF Ahead
  <2> QED
    BY <2>2, <2>3
<1>6. CASE EnterTimedPath
  <2>1. /\ hop = 0 /\ at' = at /\ hop' = 1
        /\ \E r \in paths : path' = Hops(r) /\ paths' = paths \ {r}
    BY <1>6 DEF EnterTimedPath, EnterPath
  <2>2. PICK r \in paths : path' = Hops(r) /\ paths' = paths \ {r}
    BY <2>1
  <2>3. i \in 1..at /\ (Settled(s, p) \/ (i = at /\ Ahead(p)))
    BY <1>1, <1>3, <2>1
  <2>4. CASE Settled(s, p)
    BY <1>4, <2>4
  <2>5. CASE i = at /\ Ahead(p)
    <3>1. p \in paths
      BY <2>1, <2>5 DEF Ahead
    <3>2. p \in paths' \/ (hop' # 0 /\ path' = Hops(p))
      BY <2>1, <2>2, <3>1
    <3> QED
      BY <2>1, <2>5, <3>2 DEF Ahead
  <2> QED
    BY <2>3, <2>4, <2>5
<1>7. CASE Pass \/ CountUnknown \/ TimeHop \/ GiveUp
  <2>1. UNCHANGED <<at, paths, path>> /\ hop \in 1..Len(path) /\ hop' \in {hop + 1, Len(path) + 1}
    BY <1>7 DEF Pass, CountUnknown, TimeHop, GiveUp, NextHop, BreakPath, OnHop
  <2>2. hop' # 0
    <3>1. Len(path) \in Nat
      BY LenProperties DEF Walking
    <3> QED
      BY <2>1, <3>1
  <2> QED
    BY <1>1, <1>3, <1>4, <2>1, <2>2 DEF Ahead
<1>8. CASE JudgePath
  <2>1. UNCHANGED <<at, paths>>
    BY <1>8 DEF JudgePath, LeavePath
  <2>2. CASE i = at /\ hop # 0 /\ path = Hops(p)
    <3>1. p \in Seq(Crossing)
      BY <1>1, <1>3, <2>2, StreamPaths
    <3>2. s = Stream
      BY <1>3, <2>2 DEF Stream
    <3>3. ASSUME Timeable(p), TooLate(Stream, p) PROVE Lateness(Stream, p) \in violations'
      <4>1. Along(p) /\ Summed(p)
        BY <2>2, <3>1, <3>3 DEF Along, Summing
      <4>2. at \in 1..Len(S)
        BY <1>1, <2>1, <2>2
      <4> QED
        BY <1>8, <3>1, <3>3, <4>1, <4>2, Judged
    <3>4. Timeable(p)' = Timeable(p) /\ ExactDelay(p)' = ExactDelay(p)
      BY LoadedStays
    <3>5. TooLate(s, p)' = TooLate(s, p) /\ Lateness(s, p)' = Lateness(s, p)
      BY <3>4 DEF TooLate, Lateness
    <3> QED
      BY <3>2, <3>3, <3>4, <3>5 DEF Settled
  <2>3. CASE ~(i = at /\ hop # 0 /\ path = Hops(p))
    BY <1>1, <1>3, <1>4, <2>1, <2>3 DEF Ahead
  <2> QED
    BY <2>2, <2>3
<1> QED
  BY <1>5, <1>6, <1>7, <1>8 DEF LatencyStep
(* No rule is run before the file is loaded; when LAT001 has been run,     *)
(* what is late has been returned.                                         *)
Early == /\ stage # "loaded" => todo = Asked
         /\ reported => todo = <<>>

Behind ==
    stage = "loaded" /\ (\A i \in 1..Len(todo) : todo[i] # "LAT001") =>
      \A s \in WithBudget : \A p \in AllPaths(Indexed, s) :
        Timeable(p) /\ TooLate(s, p) => Lateness(s, p) \in returned

LEMMA BehindStays ==
    ASSUME UNCHANGED <<loader, todo>>, returned \subseteq returned', Behind
    PROVE  Behind'
<1>1. \A s, p : TooLate(s, p)' = TooLate(s, p) /\ Lateness(s, p)' = Lateness(s, p)
  BY LoadedStays DEF TooLate, Lateness
<1>2. stage' = stage /\ todo' = todo
  BY DEF loader
<1>3. \A p : Timeable(p)' = Timeable(p)
  BY LoadedStays
<1>4. WithBudget' = WithBudget /\ \A s : AllPaths(Indexed, s)' = AllPaths(Indexed, s)
  BY LoadedStays
<1> QED
  BY <1>1, <1>2, <1>3, <1>4 DEF Behind

(* When LAT001 returns nothing is ahead of it any more.                    *)
LEMMA ReturnsWhatIsLate ==
    ASSUME SectionsRead, IndexedSoFar, InOrder, Early, Pending, Behind, Return
    PROVE  Behind'
<1>1. /\ todo # <<>> /\ todo' = Tail(todo) /\ UNCHANGED loader
      /\ returned' = returned \cup violations
  BY DEF Return, BandwidthDone, ServiceDone, LatencyDone, Running
<1>2. /\ Len(todo) \in 1..Len(Asked)
      /\ Len(Tail(todo)) = Len(todo) - 1
      /\ \A i \in 1..(Len(todo) - 1) : Tail(todo)[i] = todo[i + 1]
      /\ Head(todo) = todo[1]
  <2>1. todo \in Seq(Range(Asked))
    BY DEF InOrder, IsEnd
  <2> QED
    BY <1>1, <2>1, AskedList, NextOfEnd, HeadTailProperties DEF InOrder
<1>3. Len(Asked) = 3
  BY DEF Asked
<1>4. SUFFICES ASSUME stage = "loaded", \A i \in 1..Len(todo') : todo'[i] # "LAT001",
                      NEW s \in WithBudget, NEW p \in AllPaths(Indexed, s), Timeable(p), TooLate(s, p)
               PROVE  Lateness(s, p) \in returned'
  <2>1. stage' = stage
    BY <1>1 DEF loader
  <2>2. \A r, q : TooLate(r, q)' = TooLate(r, q) /\ Lateness(r, q)' = Lateness(r, q)
    BY <1>1, LoadedStays DEF TooLate, Lateness
  <2>3. \A q : Timeable(q)' = Timeable(q)
    BY <1>1, LoadedStays
  <2>4. WithBudget' = WithBudget /\ \A r : AllPaths(Indexed, r)' = AllPaths(Indexed, r)
    BY <1>1, LoadedStays
  <2> QED
    BY <1>4, <2>1, <2>2, <2>3, <2>4 DEF Behind
<1>5. CASE Head(todo) = "LAT001"
  <2>1. Running("LAT001") /\ Walked /\ at = Len(parsed.streams)
    BY <1>4, <1>5 DEF Return, BandwidthDone, ServiceDone, LatencyDone, Running, AllStreams
  <2>2. PICK i \in 1..at : s = parsed.streams[i]
    <3>1. IsList(parsed.streams)
      BY SectionsAre DEF SectionsRead, VectorsRead
    <3>2. DOMAIN parsed.streams = 1..at
      BY <2>1, <3>1, ListIs
    <3> QED
      BY <3>2 DEF WithBudget, Range
  <2>3. Settled(s, p)
    BY <1>4, <2>1, <2>2 DEF Pending, Ahead, Walked
  <2> QED
    BY <1>1, <1>4, <2>3 DEF Settled
<1>6. CASE Head(todo) # "LAT001"
  <2>1. ASSUME NEW i \in 1..Len(todo) PROVE todo[i] # "LAT001"
    <3> DEFINE n == Len(todo)
    <3>1. n \in 1..3 /\ i \in 1..n
      BY <1>2, <1>3
    <3>2. CASE i = 1
      BY <1>2, <1>6, <3>2
    <3>3. CASE i # 1
      <4>1. i - 1 \in 1..(n - 1) /\ (i - 1) + 1 = i
        <5> HIDE DEF n
        <5> QED
          BY <3>1, <3>3
      <4>2. Tail(todo)[i - 1] = todo[i] /\ i - 1 \in 1..Len(todo')
        BY <1>1, <1>2, <4>1
      <4> QED
        BY <1>1, <1>4, <4>2
    <3> QED
      BY <3>2, <3>3
  <2> QED
    BY <1>1, <1>4, <2>1 DEF Behind
<1> QED
  BY <1>5, <1>6

Reporting == Early /\ Summing /\ Pending /\ Behind

(* The first rule that is run is not LAT001.                               *)
LEMMA AskedFirst == Head(Asked) # "LAT001" /\ Asked[3] = "LAT001" /\ Len(Asked) = 3
  BY DEF Asked

LEMMA NotRunning ==
    ASSUME ~Running("LAT001")
    PROVE  Summing /\ Pending
  BY DEF Summing, Pending

LEMMA ReportingStep ==
    /\ SectionsRead /\ IndexedSoFar /\ Walking /\ Tallied /\ InOrder
    /\ Reporting /\ [Next]_vars
    => Reporting'
<1> SUFFICES ASSUME SectionsRead, IndexedSoFar, Walking, Tallied, InOrder, Reporting, [Next]_vars
             PROVE  Reporting'
  OBVIOUS
<1>0. Early /\ Summing /\ Pending /\ Behind
  BY DEF Reporting
<1>1. CASE Load
  <2>1. UNCHANGED <<todo, reported>> /\ stage # "loaded"
    BY <1>1 DEF rules, Load, LoadStep, ReadThrows, ReadSection, BuildIndexes, IndexNode, Indexing, IndexThrows,
                NodesIndexed, IndexDomain, Loaded
  <2>2. todo = Asked /\ todo' = Asked
    BY <1>0, <2>1 DEF Early
  <2>3. ~Running("LAT001")'
    BY <2>2, AskedFirst DEF Running
  <2>4. Summing' /\ Pending'
    BY <2>3 DEF Summing, Pending
  <2>5. 3 \in 1..Len(todo') /\ todo'[3] = "LAT001"
    BY <2>2, AskedFirst
  <2>6. Behind' /\ Early'
    BY <1>0, <2>1, <2>2, <2>5 DEF Behind, Early
  <2> QED
    BY <2>4, <2>6 DEF Reporting
<1>2. CASE CheckBandwidth \/ CheckServices
  <2>1. UNCHANGED <<loader, todo, returned, reported>> /\ ~Running("LAT001")
    BY <1>2 DEF CheckBandwidth, BandwidthStep, CheckServices, ServiceStep, Running
  <2>2. stage' = stage /\ todo' = todo
    BY <2>1 DEF loader
  <2>3. ~Running("LAT001")'
    BY <2>1, <2>2 DEF Running
  <2>4. Summing' /\ Pending'
    BY <2>3 DEF Summing, Pending
  <2>5. Behind' /\ Early'
    BY <1>0, <2>1, <2>2, BehindStays DEF Early
  <2> QED
    BY <2>4, <2>5 DEF Reporting
<1>3. CASE CheckLatency
  <2>1. UNCHANGED <<loader, todo, returned, reported>> /\ Running("LAT001") /\ LatencyStep
    BY <1>3 DEF CheckLatency, LatencyStep
  <2>2. Pending'
    BY <1>0, <2>1, PendingStep
  <2>3. ASSUME NEW p \in Seq(Crossing), Along(p)' PROVE Summed(p)'
    BY <1>0, <2>1, <2>3, SummingStep
  <2>4. Behind' /\ Early'
    BY <1>0, <2>1, BehindStays DEF Early, loader
  <2> QED
    BY <2>2, <2>3, <2>4 DEF Reporting, Summing
<1>4. CASE Return
  <2>1. Behind'
    BY <1>0, <1>4, ReturnsWhatIsLate
  <2>2. stage = "loaded" /\ stage' = stage /\ todo # <<>> /\ reported' = reported
    BY <1>4 DEF Return, BandwidthDone, ServiceDone, LatencyDone, Running, loader
  <2>3. hop' = 0 /\ at' = 0
    BY <1>4 DEF Return, CallNext
  <2>4. Summing'
    BY <2>3 DEF Summing, Along
  <2>5. Pending'
    <3>1. Len(parsed'.streams) \in Nat
      BY <1>4, SectionsAre, ListIs DEF Return, loader, SectionsRead, VectorsRead
    <3> QED
      BY <2>3, <3>1 DEF Pending
  <2> QED
    BY <1>0, <2>1, <2>2, <2>4, <2>5 DEF Reporting, Early
<1>5. CASE Report
  <2>1. UNCHANGED <<loader, todo, returned>> /\ todo = <<>> /\ stage = "loaded"
    BY <1>5 DEF Report
  <2>2. stage' = stage /\ todo' = <<>>
    BY <2>1 DEF loader
  <2>3. ~Running("LAT001")'
    BY <2>2 DEF Running
  <2>4. Summing' /\ Pending'
    BY <2>3 DEF Summing, Pending
  <2>5. Behind' /\ Early'
    BY <1>0, <2>1, <2>2, BehindStays DEF Early
  <2> QED
    BY <2>4, <2>5 DEF Reporting
<1>6. CASE UNCHANGED vars
  <2>1. UNCHANGED <<loader, todo, returned, reported, violations, at, paths, path, hop>>
    BY <1>6 DEF vars, rules, walk
  <2>2. UNCHANGED <<path_coherent, counted_switches, total_delay_ns, stage>>
    BY <1>6 DEF vars, rules, latency, loader
  <2>3. Behind' /\ Early'
    BY <1>0, <2>1, <2>2, BehindStays DEF Early
  <2>4. Running("LAT001")' = Running("LAT001")
    BY <2>1, <2>2 DEF Running
  <2>5. /\ \A p : Timeable(p)' = Timeable(p) /\ VisitedBy(p)' = VisitedBy(p) /\ Delays(p)' = Delays(p)
        /\ \A p : ExactDelay(p)' = ExactDelay(p)
        /\ \A s : AllPaths(Indexed, s)' = AllPaths(Indexed, s)
        /\ WithBudget' = WithBudget /\ parsed' = parsed
    BY <2>1, LoadedStays
  <2>6. \A p : Before(p)' = Before(p)
    BY <2>1, <2>5 DEF Before
  <2>7. \A p : Summed(p)' = Summed(p) /\ Along(p)' = Along(p)
    BY <2>1, <2>2, <2>5, <2>6 DEF Summed, Along
  <2>8. Summing'
    BY <1>0, <2>4, <2>7 DEF Summing
  <2>9. \A s, p : Settled(s, p)' = Settled(s, p) /\ Ahead(p)' = Ahead(p)
    BY <2>1, <2>5 DEF Settled, TooLate, Lateness, Ahead
  <2>10. Pending'
    BY <1>0, <2>1, <2>4, <2>5, <2>9 DEF Pending
  <2> QED
    BY <2>3, <2>8, <2>10 DEF Reporting
<1> QED
  BY <1>1, <1>2, <1>3, <1>4, <1>5, <1>6 DEF Next, Work, Ended

(* A path that is too late is reported, for every file and however the     *)
(* propagation delay is signed.                                            *)
THEOREM ReportsLate == Spec => []LateIsReported
<1>1. Init => Reporting
  <2> SUFFICES ASSUME Init PROVE Reporting
    OBVIOUS
  <2>1. todo = Asked /\ reported = FALSE /\ stage = "read"
    BY DEF Init, LoadInit
  <2>2. ~Running("LAT001")
    BY <2>1 DEF Running
  <2> QED
    BY <2>1, <2>2, NotRunning DEF Reporting, Early, Behind
<1>2. InOrder /\ Reporting => LateIsReported
  <2> SUFFICES ASSUME InOrder, Reporting, reported PROVE LateIsReported
    BY DEF LateIsReported
  <2>1. todo = <<>> /\ stage = "loaded" /\ Behind
    BY DEF InOrder, Reporting, Early
  <2>2. Len(todo) = 0
    BY <2>1, EmptySeq
  <2> QED
    BY <2>1, <2>2 DEF Behind, LateIsReported
<1>3. Spec => []Reporting
  BY <1>1, ReportingStep, AlwaysIndexed, AlwaysInOrder, PTL DEF Spec
<1> QED
  BY <1>2, <1>3, AlwaysInOrder, PTL
=============================================================================
