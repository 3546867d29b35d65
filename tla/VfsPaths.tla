------------------------------ MODULE VfsPaths -----------------------------
(***************************************************************************)
(* What the filesystem promises, without nodes, lists or blocks: a tree of *)
(* paths.  A path is the sequence of names from the root, the root the     *)
(* empty sequence.  Room is two numbers, how many entries there are and    *)
(* how many blocks their texts need: because all blocks are the same size  *)
(* an operation is refused for want of room only when there is too little  *)
(* of it (vfsblock.c, "nothing here can fragment").                        *)
(*                                                                         *)
(* Module Vfs is shown to implement this one (module VfsRefinement).       *)
(***************************************************************************)
EXTENDS Integers, Sequences, FiniteSets, SequencesExt

CONSTANTS Names, Paths, Texts,
          MaxEntries,   \* the root included
          MaxBlocks, BlockSize, MaxText

VARIABLES tree,  \* what is at each path: its kind, and its text if it is a file
          here,  \* the working directory
          reply
vars == <<tree, here, reply>>

Nowhere == <<"">>
Root == << >>
Directory == [kind |-> "DIR", text |-> << >>]
File(text) == [kind |-> "FILE", text |-> text]

Up(p) == IF p = Root THEN Root ELSE Front(p)
Below(p) == {q \in DOMAIN tree : IsPrefix(p, q)}

Follow(p, comp) ==
  IF p = Nowhere THEN Nowhere
  ELSE IF comp = "." THEN p
  ELSE IF comp = ".." THEN Up(p)
  ELSE IF tree[p].kind = "FILE" \/ Append(p, comp) \notin DOMAIN tree THEN Nowhere
  ELSE Append(p, comp)

Start(path) == IF path.root THEN Root ELSE here

\* Where the first k components of a path lead.
Lead(path) ==
  LET to[k \in 0 .. Len(path.comps)] ==
        IF k = 0 THEN Start(path) ELSE Follow(to[k - 1], path.comps[k])
  IN  to

At(path) == Lead(path)[Len(path.comps)]
In(path) == Lead(path)[IF path.comps = << >> THEN 0 ELSE Len(path.comps) - 1]
New(path) == IF path.comps = << >> THEN Nowhere ELSE Append(In(path), Last(path.comps))

\* Why nothing can be put at the end of a path.
Taken(path) ==
  IF In(path) = Nowhere THEN "NOT_FOUND"
  ELSE IF tree[In(path)].kind = "FILE" THEN "NOT_A_DIRECTORY"
  ELSE IF path.comps = << >> THEN "BAD_NAME"
  ELSE IF Last(path.comps) \notin Names THEN "BAD_NAME"
  ELSE IF New(path) \in DOMAIN tree THEN "EXISTS"
  ELSE "OK"

BlocksFor(text) == (Len(text) + BlockSize - 1) \div BlockSize

\* The blocks the texts need, each by its file and its number.
BlocksUsed(t) == UNION {{p} \X (1 .. BlocksFor(t[p].text)) : p \in DOMAIN t}
Fits(t) == Cardinality(BlocksUsed(t)) <= MaxBlocks

With(t, p, entry) == [q \in DOMAIN t \cup {p} |-> IF q = p THEN entry ELSE t[q]]
Without(t, gone) == [q \in DOMAIN t \ gone |-> t[q]]

Becomes(t, answer) == tree' = t /\ reply' = answer /\ UNCHANGED here
Refused(answer) == reply' = answer /\ UNCHANGED <<tree, here>>

Init == tree = [p \in {Root} |-> Directory] /\ here = Root /\ reply = "OK"

Make(path, entry) ==
  IF Taken(path) # "OK" THEN Refused(Taken(path))
  ELSE IF Cardinality(DOMAIN tree) = MaxEntries THEN Refused("NO_SPACE")
  ELSE Becomes(With(tree, New(path), entry), "OK")

Chdir(path) ==
  IF At(path) = Nowhere THEN Refused("NOT_FOUND")
  ELSE IF tree[At(path)].kind = "FILE" THEN Refused("NOT_A_DIRECTORY")
  ELSE here' = At(path) /\ reply' = "OK" /\ UNCHANGED tree

\* A file of length zero is left behind by a text that does not fit: the old
\* one is given up first, and the entry is made first.
Store(t, p, old, text) ==
  IF Len(old \o text) > MaxText THEN Becomes(With(t, p, File(old)), "TOO_BIG")
  ELSE IF ~Fits(With(t, p, File(old \o text)))
       THEN Becomes(With(t, p, File(old)), "NO_SPACE")
  ELSE Becomes(With(t, p, File(old \o text)), "OK")

Put(path, text, keep) ==
  IF At(path) # Nowhere
  THEN IF tree[At(path)].kind = "DIR" THEN Refused("IS_A_DIRECTORY")
       ELSE Store(tree, At(path), IF keep THEN tree[At(path)].text ELSE << >>, text)
  ELSE IF Taken(path) # "OK" THEN Refused(Taken(path))
  ELSE IF Cardinality(DOMAIN tree) = MaxEntries THEN Refused("NO_SPACE")
  ELSE Store(tree, New(path), << >>, text)

Delete(path) ==
  IF At(path) = Nowhere THEN Refused("NOT_FOUND")
  ELSE IF At(path) = Root THEN Refused("BAD_NAME")
  ELSE IF Below(At(path)) # {At(path)} \/ IsPrefix(At(path), here)
  THEN Refused("NOT_EMPTY")
  ELSE Becomes(Without(tree, {At(path)}), "OK")

\* Everything under the moved entry goes with it, the working directory too.
Moved(from, to, p) ==
  IF IsPrefix(from, p) THEN to \o SubSeq(p, Len(from) + 1, Len(p)) ELSE p

Rehung(t, from, to) ==
  [q \in {Moved(from, to, p) : p \in DOMAIN t} |->
     t[CHOOSE p \in DOMAIN t : Moved(from, to, p) = q]]

Move(src, dst) ==
  LET from == At(src)
      to == New(dst)
  IN  IF from = Nowhere THEN Refused("NOT_FOUND")
      ELSE IF from = Root THEN Refused("BAD_NAME")
      ELSE IF Taken(dst) # "OK" THEN Refused(Taken(dst))
      ELSE IF IsPrefix(from, In(dst)) THEN Refused("BAD_NAME")
      ELSE /\ tree' = Rehung(tree, from, to)
           /\ here' = Moved(from, to, here)
           /\ reply' = "OK"

\* All or nothing, the entry included.
Copy(src, dst) ==
  IF At(src) = Nowhere THEN Refused("NOT_FOUND")
  ELSE IF tree[At(src)].kind = "DIR" THEN Refused("IS_A_DIRECTORY")
  ELSE IF At(dst) # Nowhere THEN Refused("EXISTS")
  ELSE IF Taken(dst) # "OK" THEN Refused(Taken(dst))
  ELSE IF \/ Cardinality(DOMAIN tree) = MaxEntries
          \/ ~Fits(With(tree, New(dst), tree[At(src)]))
  THEN Refused("NO_SPACE")
  ELSE Becomes(With(tree, New(dst), tree[At(src)]), "OK")

Next ==
  \/ \E path \in Paths : Make(path, Directory)
  \/ \E path \in Paths : Make(path, File(<< >>))
  \/ \E path \in Paths : Chdir(path)
  \/ \E path \in Paths : Delete(path)
  \/ \E path \in Paths, text \in Texts, keep \in BOOLEAN : Put(path, text, keep)
  \/ \E src, dst \in Paths : Move(src, dst)
  \/ \E src, dst \in Paths : Copy(src, dst)

Spec == Init /\ [][Next]_vars
============================================================================
