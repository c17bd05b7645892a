----------------------------- MODULE Patchutil -----------------------------
(***************************************************************************)
(* Comparing and combining patches (patchutil/image.go, interdiff.go,       *)
(* combinediff.go) for one file.  A patch carries only the lines near its   *)
(* changes, so both operations rebuild images of the file from what the     *)
(* patches show, with a blank line for each line nobody shows.  A text is a *)
(* sequence of lines, a patch a sequence of fragments; NoPatch stands for a *)
(* patch that does not touch the file.  diff, git and gitdiff.Apply are     *)
(* external: Diffs is every minimal line diff with Context lines around a   *)
(* change.                                                                  *)
(***************************************************************************)
EXTENDS Integers, Sequences, FiniteSets, FiniteSetsExt, SequencesExt

CONSTANTS Line, Blank, Context, MaxLines,
          Failed   \* an error

ASSUME LinesAssumption == Blank \notin Line /\ {Context, MaxLines} \subseteq Nat \ {0}

FileText == SeqOf(Line, MaxLines)
NoPatch == <<>>

---------------------------------------------------------------------------
(* external: diff -u *)

Op(op, line) == [op |-> op, line |-> line]

(* the edit script that keeps the lines K of a, which are the lines J of b  *)
Script(a, b, K, J) ==
  LET from[i \in 1..(Len(a) + 1), j \in 1..(Len(b) + 1)] ==
        IF i <= Len(a) /\ i \notin K THEN <<Op("-", a[i])>> \o from[i + 1, j]
        ELSE IF j <= Len(b) /\ j \notin J THEN <<Op("+", b[j])>> \o from[i, j + 1]
        ELSE IF i <= Len(a) THEN <<Op(" ", a[i])>> \o from[i + 1, j + 1]
        ELSE <<>>
  IN from[1, 1]

Sorted(K) == [i \in 1..Cardinality(K) |-> CHOOSE k \in K : Cardinality({j \in K : j <= k}) = i]

(* the fragments of a script: its changes with their context *)
Fragments(s) ==
  LET shown == {k \in DOMAIN s : \E c \in DOMAIN s : s[c].op # " " /\ c - k \in -Context..Context}
      starts == {k \in shown : k - 1 \notin shown}
      End(k) == CHOOSE e \in shown : k <= e /\ e + 1 \notin shown /\ k..e \subseteq shown
      Count(from, to, skip) == Cardinality({k \in from..to : s[k].op # skip})
      Position(k, skip) == Count(1, k - 1, skip) + (IF Count(k, End(k), skip) > 0 THEN 1 ELSE 0)
      Fragment(k) == [old |-> Position(k, "+"), new |-> Position(k, "-"), lines |-> SubSeq(s, k, End(k))]
      order == Sorted(starts)
  IN [i \in DOMAIN order |-> Fragment(order[i])]

Picks(t, K) == LET ks == Sorted(K) IN [i \in DOMAIN ks |-> t[ks[i]]]

Diffs(a, b) ==
  LET Parts(t, k) == [K \in kSubset(k, DOMAIN t) |-> Picks(t, K)]
      best == Max({k \in 0..Min({Len(a), Len(b)}) : Range(Parts(a, k)) \cap Range(Parts(b, k)) # {}})
      ofA == Parts(a, best)
      ofB == Parts(b, best)
  IN UNION {{Fragments(Script(a, b, K, J)) : J \in {L \in DOMAIN ofB : ofB[L] = ofA[K]}} : K \in DOMAIN ofA}

Unified(a, b) == CHOOSE p \in Diffs(a, b) : TRUE

(* external: gitdiff.Apply; a fragment whose lines are not where it says    *)
(* they are fails it                                                        *)
Side(lines, skip) ==
  LET side == SelectSeq(lines, LAMBDA l : l.op # skip) IN [i \in DOMAIN side |-> side[i].line]
ApplyTo(text, patch) ==
  LET step(r, f) ==
        LET old == Side(f.lines, "+")
            at == Max({f.old, 1})
        IN IF r = Failed THEN Failed
           ELSE IF at < r.next \/ (f.old = 0 /\ text # <<>>) \/ at + Len(old) - 1 > Len(text)
                     \/ SubSeq(text, at, at + Len(old) - 1) # old
                THEN Failed
           ELSE [next |-> at + Len(old),
                 done |-> r.done \o SubSeq(text, r.next, at - 1) \o Side(f.lines, "-")]
      end == FoldLeft(step, [next |-> 1, done |-> <<>>], patch)
  IN IF end = Failed THEN Failed ELSE end.done \o SubSeq(text, end.next, Len(text))

---------------------------------------------------------------------------
(* image.go: an image maps the numbers of the lines that are known *)

Image(patch, skip, position) ==
  LET side == [i \in DOMAIN patch |-> Side(patch[i].lines, skip)]
      start(i) == patch[i][position]
      Span(i) == start(i)..(start(i) + Len(side[i]) - 1)
  IN [n \in UNION {Span(i) : i \in DOMAIN patch} |->
        LET i == CHOOSE k \in DOMAIN patch : n \in Span(k) IN side[i][n - start(i) + 1]]

CreatePreImage(patch) == Image(patch, "+", "old")

(* mutant: the revised lines are numbered from the old position *)
CreatePostImage_OldPosition(patch) == Image(patch, "-", "old")

CreatePostImage(patch) == Image(patch, "-", "new")

(* lines nobody knows are blank, up to the last one known *)
String(image) ==
  [n \in 1..Max(DOMAIN image \cup {0}) |-> IF n \in DOMAIN image THEN image[n] ELSE Blank]

Mismatch(im1, im2) == \E n \in DOMAIN im1 \cap DOMAIN im2 : im1[n] # im2[n]

MergeImages(im1, im2) ==
  [n \in DOMAIN im1 \cup DOMAIN im2 |-> IF n \in DOMAIN im1 THEN im1[n] ELSE im2[n]]

Apply(image, patch) == ApplyTo(String(image), patch)

---------------------------------------------------------------------------
(* interdiff.go *)

Interdiffed(status, patch) == [status |-> status, patch |-> patch]

(* mutant: the positions of the fragments are not swapped *)
reverseDiff_KeepsPositions(patch) ==
  [i \in DOMAIN patch |->
     [patch[i] EXCEPT !.lines = [k \in DOMAIN @ |->
        [@[k] EXCEPT !.op = CASE @ = "+" -> "-" [] @ = "-" -> "+" [] OTHER -> @]]]]

reverseDiff(patch) ==
  [i \in DOMAIN patch |->
     [old |-> patch[i].new, new |-> patch[i].old,
      lines |-> [k \in DOMAIN patch[i].lines |->
                   [patch[i].lines[k] EXCEPT !.op = CASE @ = "+" -> "-" [] @ = "-" -> "+" [] OTHER -> @]]]]

interdiffFiles(f1, f2) ==
  LET re1 == CreatePreImage(f1)
      re2 == CreatePreImage(f2)
      merged == MergeImages(re1, re2)
      rev1 == Apply(merged, f1)
      rev2 == Apply(merged, f2)
  IN IF Mismatch(re1, re2) THEN Interdiffed("rebased", NoPatch)
     ELSE IF Failed \in {rev1, rev2} THEN Interdiffed("error", NoPatch)
     ELSE IF rev1 = rev2 THEN Interdiffed("unchanged", NoPatch)
     ELSE Interdiffed("changed", Unified(rev1, rev2))

Interdiff(p1, p2) ==
  CASE p1 = NoPatch /\ p2 = NoPatch -> Interdiffed("absent", NoPatch)
    [] p1 # NoPatch /\ p2 = NoPatch -> Interdiffed("only in one", reverseDiff(p1))
    [] p1 = NoPatch /\ p2 # NoPatch -> Interdiffed("only in two", p2)
    [] OTHER -> interdiffFiles(p1, p2)

---------------------------------------------------------------------------
(* combinediff.go *)

(* what patch f2 makes of the image that the two patches show *)
combinedText(f1, f2) ==
  LET r1 == CreatePostImage(f1)
      o2 == CreatePreImage(f2)
  IN IF Mismatch(r1, o2) THEN Failed ELSE Apply(MergeImages(r1, o2), f2)

combineFiles(f1, f2) ==
  LET rev == combinedText(f1, f2)
      o1 == String(CreatePreImage(f1))
  IN IF rev = Failed THEN Failed ELSE IF o1 = rev THEN NoPatch ELSE Unified(o1, rev)

(* an error of combineFiles is dropped, and the file with it *)
combineTwo(p1, p2) ==
  CASE p2 = NoPatch -> p1
    [] p1 = NoPatch -> p2
    [] OTHER -> LET c == combineFiles(p1, p2) IN IF c = Failed THEN NoPatch ELSE c

CombineDiff(patches) == FoldLeft(combineTwo, Head(patches), Tail(patches))
============================================================================
