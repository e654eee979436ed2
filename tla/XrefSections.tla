---------------------------- MODULE XrefSections ----------------------------
(***************************************************************************)
(* Cross-reference sections and the /Prev chains they form, as plain        *)
(* definitions shared by the reader (XrefChain) and the writer              *)
(* (IncrementalWriter).                                                     *)
(*                                                                         *)
(* A file is a function from the byte offsets at which a section starts to  *)
(* the section found there.  Byte offsets are positive naturals whose       *)
(* distance carries no meaning; 0 stands for an absent /Prev.               *)
(***************************************************************************)
EXTENDS Naturals, Sequences

NoPrev == 0

(* The numbers an in-section entry list mentions, and the position of the   *)
(* entry that the section contributes for one of them.  A classic table     *)
(* keeps the first entry in source order; a decoded xref stream keeps the   *)
(* last one, later /Index subsections overwriting earlier ones.             *)
EntryNumbers(entries) == {entries[i].num : i \in DOMAIN entries}

WinningIndex(kind, entries, n) ==
    LET at == {i \in DOMAIN entries : entries[i].num = n} IN
    CHOOSE i \in at : \A j \in at : IF kind = "Table" THEN i <= j ELSE j <= i

(* path is the whole /Prev chain of file from start, newest section first.  *)
IsChain(file, start, path) ==
    /\ path # <<>>
    /\ path[1] = start
    /\ \A i \in DOMAIN path : path[i] \in DOMAIN file
    /\ \A i \in 1..(Len(path) - 1) : file[path[i]].prev = path[i + 1]
    /\ file[path[Len(path)]].prev = NoPrev

(* The number n is first defined, newest to oldest, by the i-th section.    *)
DefinedFirstBy(numbers, path, i, n) ==
    /\ n \in numbers[path[i]]
    /\ \A j \in 1..(i - 1) : n \notin numbers[path[j]]

(* Every sequence of at most limit offsets without a repetition.            *)
Walks(offsets, limit) ==
    UNION {{w \in [1..k -> offsets] :
              \A i, j \in 1..k : w[i] = w[j] => i = j} : k \in 0..limit}
=============================================================================
