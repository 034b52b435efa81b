---------------------------- MODULE Frontmatter ----------------------------
(***************************************************************************)
(* Editing the frontmatter of a world file in place                        *)
(* (internal/world/edit.go): a Change names a key or a list item by its    *)
(* path, and EditFrontmatter applies a sequence of Changes to a tree of    *)
(* mappings, lists and scalars.  Key order, comments, quoting and line     *)
(* ends are left out: they never decide what a path leads to.              *)
(***************************************************************************)
EXTENDS Naturals, Sequences, SequencesExt

CONSTANT Numerals    \* bound: the decimal indices of list items, "0", "1"...

(***************************************************************************)
(* Nodes.  Bad stands for an error, Absent for a key that is not there.    *)
(***************************************************************************)
Str(s) == [kind |-> "str", str |-> s]
Num(n) == [kind |-> "num", num |-> n]
Map(f) == [kind |-> "map", map |-> f]
List(s) == [kind |-> "list", list |-> s]
Null == [kind |-> "null"]
Absent == [kind |-> "absent"]
Bad == [kind |-> "bad"]

IsMap(n) == n.kind = "map"
IsList(n) == n.kind = "list"

\* What the parser makes of a file: no node stands for a missing one or an error,
\* and none is of another build than its kind.
Ordered(s) == Len(s) \in Nat /\ s = [i \in 1..Len(s) |-> s[i]]
Keyed(f) == f = [k \in DOMAIN f |-> f[k]]
Parsed(n) ==
    /\ n \notin {Absent, Bad}
    /\ n.kind = "str" => n = Str(n.str)
    /\ n.kind = "num" => n = Num(n.num)
    /\ n.kind = "list" => n = List(n.list) /\ Ordered(n.list)
    /\ n.kind = "map" => n = Map(n.map) /\ Keyed(n.map)

\* lookupKey.
Lookup(n, key) == IF key \in DOMAIN n.map THEN n.map[key] ELSE Absent
With(n, key, v) ==
    Map([k \in DOMAIN n.map \union {key} |-> IF k = key THEN v ELSE n.map[k]])
Without(n, key) == Map([k \in DOMAIN n.map \ {key} |-> n.map[k]])

\* Path segments: keys, the decimal index of a list item, and "-" to append.
appendSegment == "-"
IsIndex(seg) == seg \in Range(Numerals)

ASSUME NumeralsOK == Ordered(Numerals) /\ IsInjective(Numerals) /\ ~IsIndex(appendSegment)

\* itemIndex: the item a segment names, or none.
ItemAt(seg) == CHOOSE i \in 1..Len(Numerals) : Numerals[i] = seg
HasItem(n, seg) == IsIndex(seg) /\ ItemAt(seg) <= Len(n.list)

-----------------------------------------------------------------------------
(***************************************************************************)
(* setPath: walk down, making the collections that are missing, put the    *)
(* value, and rebuild the way up.                                          *)
(***************************************************************************)
emptyCollection(next) == IF next = appendSegment THEN List(<<>>) ELSE Map(<<>>)

\* The node that segment seg of a path leads to, next being the segment after.
Descend(n, seg, next) ==
    CASE IsMap(n) /\ Lookup(n, seg) = Absent ->
            IF IsIndex(next) THEN Bad ELSE emptyCollection(next)
      [] IsMap(n) /\ Lookup(n, seg) = Null -> emptyCollection(next)
      [] IsMap(n) /\ Lookup(n, seg) \notin {Absent, Null} -> Lookup(n, seg)
      [] IsList(n) /\ HasItem(n, seg) -> n.list[ItemAt(seg)]
      [] OTHER -> Bad

Put(n, seg, v) ==
    CASE v = Bad -> Bad
      [] v # Bad /\ IsMap(n) -> With(n, seg, v)
      [] v # Bad /\ IsList(n) /\ seg = appendSegment -> List(Append(n.list, v))
      [] v # Bad /\ IsList(n) /\ HasItem(n, seg) -> List([n.list EXCEPT ![ItemAt(seg)] = v])
      [] OTHER -> Bad

setPath(n, path, v) ==
    LET last == Len(path)
        at[d \in 1..last] == IF d = 1 THEN n ELSE Descend(at[d - 1], path[d - 1], path[d])
        up[d \in 1..last] ==
            LET seg == path[last + 1 - d]
            IN  Put(at[last + 1 - d], seg, IF d = 1 THEN v ELSE up[d - 1])
    IN  up[last]

(***************************************************************************)
(* deletePath: a key that is not there, or null in the way, is no change.  *)
(***************************************************************************)
Enter(n, seg) ==
    CASE IsMap(n) -> Lookup(n, seg)
      [] IsList(n) /\ HasItem(n, seg) -> n.list[ItemAt(seg)]
      [] n \in {Null, Absent} -> Absent
      [] OTHER -> Bad

Cut(n, seg) ==
    IF IsMap(n) THEN Without(n, seg) ELSE List(RemoveAt(n.list, ItemAt(seg)))

deletePath(n, path) ==
    LET last == Len(path)
        at[d \in 1..(last + 1)] == IF d = 1 THEN n ELSE Enter(at[d - 1], path[d - 1])
        up[d \in 1..last] ==
            LET seg == path[last + 1 - d]
            IN  IF d = 1 THEN Cut(at[last], seg) ELSE Put(at[last + 1 - d], seg, up[d - 1])
    IN  CASE at[last + 1] = Absent -> n
          [] at[last + 1] = Bad -> Bad
          [] OTHER -> up[last]

-----------------------------------------------------------------------------
(***************************************************************************)
(* EditFrontmatter: the Changes in order; an error in one is an error.     *)
(***************************************************************************)
SetTo(path, v) == [path |-> path, value |-> v, delete |-> FALSE]
Deleted(path) == [path |-> path, value |-> Null, delete |-> TRUE]

Apply(n, c) ==
    IF n = Bad THEN Bad
    ELSE IF c.delete THEN deletePath(n, c.path) ELSE setPath(n, c.path, c.value)

EditFrontmatter(src, changes) ==
    LET after[k \in 0..Len(changes)] ==
            IF k = 0 THEN src ELSE Apply(after[k - 1], changes[k])
    IN  after[Len(changes)]

-----------------------------------------------------------------------------
(***************************************************************************)
(* The prose below the frontmatter, as a sequence of lines of which Blank  *)
(* has no text.                                                            *)
(***************************************************************************)
Blank == ""

\* trimProse: no blank lines before the text and none after it.
trimProse(lines) ==
    LET text == {i \in 1..Len(lines) : lines[i] # Blank}
        first == CHOOSE i \in text : \A j \in text : i <= j
        last == CHOOSE i \in text : \A j \in text : i >= j
    IN  IF text = {} THEN <<>> ELSE SubSeq(lines, first, last)

RawBody(tail) == trimProse(tail)

\* ReplaceBody: the same prose leaves the file as it is; other prose follows
\* one blank line.
ReplaceBody(tail, body) ==
    LET prose == trimProse(body)
    IN  CASE prose = trimProse(tail) -> tail
          [] prose # trimProse(tail) /\ prose = <<>> -> <<>>
          [] OTHER -> <<Blank>> \o prose
=============================================================================
