---------------------- MODULE LoggedStateAccessProofs ----------------------
(***************************************************************************)
(* Proofs about the logging state access: its type invariant, and that    *)
(* every prefix of the log it writes verifies from the step's initial root *)
(* to the current one (StepLogVerifies), for every tree size and number   *)
(* of calls.                                                               *)
(***************************************************************************)
EXTENDS LoggedStateAccess, StateAccessInterfaceProofs, SequenceTheorems, MerkleProofProofs

(* The CSRs of the interface, in header order, fill indices 1..26.         *)
LEMMA CsrSeqDomain ==
    /\ DOMAIN CsrSeq = 1..26
    /\ \A j, k \in 1..26 : CsrSeq[j] = CsrSeq[k] => j = k
BY DEF CsrSeq, MachineCsrs, SupervisorCsrs, HtifCsrs

(* The arms of AddrOf, one location at a time.                           *)
LEMMA AddrOfArms ==
    ASSUME NEW c, NEW i
    PROVE  /\ c = "x" => AddrOf(<<c, i>>) = i
           /\ c \in Csrs /\ c # "x" =>
                AddrOf(<<c, i>>) = 31 + (CHOOSE j \in DOMAIN CsrSeq : CsrSeq[j] = c)
           /\ c = "iflags" /\ c \notin Csrs => AddrOf(<<c, i>>) = 58
           /\ c = "pma" /\ c \notin Csrs => AddrOf(<<c, i>>) = 59 + i
           /\ c = "memory" /\ c \notin Csrs => AddrOf(<<c, i>>) = i \div 8
BY DEF AddrOf

(* The word address of each kind of location.                              *)
LEMMA LocAddrValues ==
    /\ \A r \in Regs : LocAddr[<<"x", r>>] = r
    /\ \A c \in Csrs : \E k \in 1..26 : /\ CsrSeq[k] = c
                                        /\ LocAddr[<<c, 0>>] = 31 + k
    /\ LocAddr[<<"iflags", 0>>] = 58
    /\ \A i \in PmaIndices : LocAddr[<<"pma", i>>] = 59 + i
    /\ \A a \in Paddrs : LocAddr[<<"memory", a>>] = a \div 8
<1>0. \A l \in Loc : LocAddr[l] = AddrOf(l)
  BY DEF LocAddr
<1>1. ASSUME NEW r \in Regs PROVE LocAddr[<<"x", r>>] = r
  <2>1. <<"x", r>> \in Loc
    BY DEF Loc
  <2>. QED BY <1>0, <2>1, AddrOfArms
<1>2. ASSUME NEW c \in Csrs
      PROVE  \E k \in 1..26 : CsrSeq[k] = c /\ LocAddr[<<c, 0>>] = 31 + k
  <2>1. <<c, 0>> \in Loc
    BY DEF Loc
  <2>2. \E j \in DOMAIN CsrSeq : CsrSeq[j] = c
    BY DEF Csrs
  <2> DEFINE k == CHOOSE j \in DOMAIN CsrSeq : CsrSeq[j] = c
  <2>3. k \in 1..26 /\ CsrSeq[k] = c
    BY <2>2, CsrSeqDomain
  <2>4. c # "x"
    BY CsrsApart
  <2>5. LocAddr[<<c, 0>>] = 31 + k
    BY <1>0, <2>1, <2>4, AddrOfArms
  <2>. QED BY <2>3, <2>5
<1>3. LocAddr[<<"iflags", 0>>] = 58
  BY <1>0, CsrsApart, AddrOfArms DEF Loc
<1>4. ASSUME NEW i \in PmaIndices PROVE LocAddr[<<"pma", i>>] = 59 + i
  BY <1>0, CsrsApart, AddrOfArms DEF Loc
<1>5. ASSUME NEW a \in Paddrs PROVE LocAddr[<<"memory", a>>] = a \div 8
  BY <1>0, CsrsApart, AddrOfArms DEF Loc
<1>. QED BY <1>1, <1>2, <1>3, <1>4, <1>5

(* The layout facts the proofs use, one at a time.                        *)
LEMMA Layout ==
    /\ WordCount \in Nat /\ 64 <= WordCount
    /\ Regs \subseteq 0..31 /\ PmaIndices \subseteq 0..4
    /\ \A a \in Paddrs : a \in Nat /\ a % 8 = 0 /\ 64 <= a \div 8
                         /\ a \div 8 < WordCount
BY LayoutAssumption, StateAccessAssumption DEF ShadowWords

(* Every location resolves to a word of the tree.                          *)
LEMMA LocAddrInWords ==
    \A l \in Loc : LocAddr[l] \in WordAddrs
BY LocAddrValues, Layout DEF Loc, WordAddrs

-----------------------------------------------------------------------------
(***************************************************************************)
(* The inductive invariant: TypeOK, the words are a function on the word  *)
(* addresses, and the log is a sequence (of its own records), so that an  *)
(* EXCEPT, Len and Append behave on them as the code's arrays do.          *)
(***************************************************************************)
LogRecords == {log[k] : k \in DOMAIN log}

IInv ==
    /\ TypeOK
    /\ words = [x \in WordAddrs |-> words[x]]
    /\ log \in Seq(LogRecords)

(* A sequence is a sequence of its own elements.                           *)
LEMMA SeqOfOwnRecords ==
    ASSUME NEW S, NEW f \in Seq(S)
    PROVE  f \in Seq({f[k] : k \in DOMAIN f})
<1>1. DOMAIN f = 1..Len(f) /\ Len(f) \in Nat
  BY LenProperties
<1>. QED BY <1>1, IsASeq

(***************************************************************************)
(* One logged interface call keeps the invariant: it rewrites one word of *)
(* the tree and appends one read or write record, below MaxCalls.         *)
(***************************************************************************)
LEMMA LoggedCallStep ==
    ASSUME IInv, NEW m \in Catalog, NEW i \in IndicesOf(m[2]),
           NEW v \in ArgsOf(m), LoggedCall(m, i, v)
    PROVE  IInv'
<1> DEFINE d   == Forward(m)
           loc == LocOf(d[2], i)
           a   == LocAddr[loc]
           new == IF d[1] = "read" THEN words[a] ELSE Update(words[a], d, v)
           rec == AccessRecord(words, d, a, new)
<1>1. d[2] = m[2] /\ loc \in Loc
  BY ForwardField, LocOfInLoc
<1>2. a \in WordAddrs /\ words = [x \in WordAddrs |-> words[x]]
  BY <1>1, LocAddrInWords DEF IInv
<1>3. /\ Len(log) < MaxCalls
      /\ words' = [words EXCEPT ![a] = new]
      /\ log' = Append(log, rec)
  BY DEF LoggedCall
<1>4. /\ Len(log) \in Nat
      /\ log' \in Seq(LogRecords \cup {rec})
      /\ Len(log') = Len(log) + 1
      /\ \A k \in 1..Len(log) : log'[k] = log[k]
      /\ log'[Len(log) + 1] = rec
  <2>1. log \in Seq(LogRecords \cup {rec})
    BY SeqMonotonic DEF IInv
  <2>. QED BY <1>3, <2>1, AppendProperties
<1>5. DOMAIN words' = WordAddrs /\ words' = [x \in WordAddrs |-> words'[x]]
  BY <1>2, <1>3
<1>6. Len(log') \in 0..MaxCalls
  BY <1>3, <1>4, StateAccessAssumption DEF IInv, TypeOK
<1>7. rec.kind \in {"read", "write"}
  BY DEF AccessRecord
<1>8. \A k \in DOMAIN log' : log'[k].kind \in {"read", "write"}
  BY <1>4, <1>7, LenProperties DEF IInv, TypeOK
<1>9. log' \in Seq(LogRecords')
  BY <1>4, SeqOfOwnRecords DEF LogRecords
<1>. QED BY <1>5, <1>6, <1>8, <1>9 DEF IInv, TypeOK

(* An initial state of the logging access satisfies the invariant.        *)
LEMMA InitStep ==
    Init => IInv
<1> SUFFICES ASSUME Init PROVE IInv
  OBVIOUS
<1>1. DOMAIN words = WordAddrs /\ words = [x \in WordAddrs |-> words[x]]
  BY DEF Init
<1>2. Len(log) = 0 /\ DOMAIN log = {} /\ log \in Seq(LogRecords)
  BY EmptySeq DEF Init
<1>. QED BY <1>1, <1>2, StateAccessAssumption DEF IInv, TypeOK

(* The invariant holds in every state of a run.                            *)
LEMMA IInvInvariant ==
    Spec => []IInv
<1>1. IInv /\ [Next]_vars => IInv'
  <2> SUFFICES ASSUME IInv, [Next]_vars PROVE IInv'
    OBVIOUS
  <2>1. CASE Next
    BY <2>1, LoggedCallStep DEF Next
  <2>2. CASE UNCHANGED vars
    BY <2>2 DEF vars, IInv, TypeOK, LogRecords
  <2>. QED BY <2>1, <2>2
<1>. QED BY <1>1, InitStep, PTL DEF Spec

(***************************************************************************)
(* Type correctness of the logging access: the words stay the dense array *)
(* of the tree's leaves and the log a list of at most MaxCalls records,   *)
(* each a read or a write.                                                 *)
(***************************************************************************)
THEOREM TypeCorrect == Spec => []TypeOK
BY IInvInvariant, PTL DEF IInv

-----------------------------------------------------------------------------
(***************************************************************************)
(* The Merkle tree over the words.  Level h (log2_word_size <= h <=        *)
(* log2_root_size) has 2^(log2_root_size - h) nodes, and node j of it      *)
(* spans the words j * 2^(h - log2_word_size) upwards.                     *)
(***************************************************************************)
TreeStep(v, h) ==
    [j \in 0..(2^(LOG2_ROOT_SIZE - h) - 1) |-> GetConcatHash(v[2 * j], v[2 * j + 1])]

LEMMA TreeHashDef ==
    ASSUME NEW w
    PROVE  TreeHash(w) =
             [h \in LOG2_WORD_SIZE..LOG2_ROOT_SIZE |->
                IF h = LOG2_WORD_SIZE
                THEN [j \in WordAddrs |-> LeafHash(w[j])]
                ELSE TreeStep(TreeHash(w)[h - 1], h)]
<1>1. FiniteNatInductiveDefHypothesis(TreeHash(w), [j \in WordAddrs |-> LeafHash(w[j])],
          TreeStep, LOG2_WORD_SIZE, LOG2_ROOT_SIZE)
  BY DEF FiniteNatInductiveDefHypothesis, TreeHash, TreeStep
<1>2. FiniteNatInductiveDefConclusion(TreeHash(w), [j \in WordAddrs |-> LeafHash(w[j])],
          TreeStep, LOG2_WORD_SIZE, LOG2_ROOT_SIZE)
  BY <1>1, SizesAssumption, FiniteNatInductiveDef
<1>. QED BY <1>2 DEF FiniteNatInductiveDefConclusion

(* The widths and spans of the levels of the tree.                         *)
LEMMA TreeWidths ==
    /\ \A h \in LOG2_WORD_SIZE..LOG2_ROOT_SIZE : 2^(LOG2_ROOT_SIZE - h) \in Nat \ {0}
    /\ \A h \in LOG2_WORD_SIZE..(LOG2_ROOT_SIZE - 1) :
           2^(LOG2_ROOT_SIZE - h) = 2 * 2^(LOG2_ROOT_SIZE - (h + 1))
    /\ \A h \in LOG2_WORD_SIZE..LOG2_ROOT_SIZE : 2^(h - LOG2_WORD_SIZE) \in Nat \ {0}
    /\ \A h \in LOG2_WORD_SIZE..(LOG2_ROOT_SIZE - 1) :
           2^(h + 1 - LOG2_WORD_SIZE) = 2 * 2^(h - LOG2_WORD_SIZE)
    /\ 2^(LOG2_ROOT_SIZE - LOG2_WORD_SIZE) = WordCount
    /\ 2^(LOG2_ROOT_SIZE - LOG2_ROOT_SIZE) = 1
    /\ 2^(LOG2_WORD_SIZE - LOG2_WORD_SIZE) = 1
<1>1. \A h \in LOG2_WORD_SIZE..LOG2_ROOT_SIZE :
          /\ LOG2_ROOT_SIZE - h \in 0..(LOG2_ROOT_SIZE + 1)
          /\ h - LOG2_WORD_SIZE \in 0..(LOG2_ROOT_SIZE + 1)
  BY SizesAssumption
<1>2. \A h \in LOG2_WORD_SIZE..(LOG2_ROOT_SIZE - 1) :
          /\ LOG2_ROOT_SIZE - (h + 1) \in 0..LOG2_ROOT_SIZE
          /\ LOG2_ROOT_SIZE - h = (LOG2_ROOT_SIZE - (h + 1)) + 1
          /\ h - LOG2_WORD_SIZE \in 0..LOG2_ROOT_SIZE
          /\ h + 1 - LOG2_WORD_SIZE = (h - LOG2_WORD_SIZE) + 1
  BY SizesAssumption
<1>3. LOG2_ROOT_SIZE - LOG2_ROOT_SIZE = 0 /\ LOG2_WORD_SIZE - LOG2_WORD_SIZE = 0
  BY SizesAssumption
<1>4. \A h \in LOG2_WORD_SIZE..LOG2_ROOT_SIZE : 2^(LOG2_ROOT_SIZE - h) \in Nat \ {0}
  BY <1>1, PowPos, Zenon
<1>5. ASSUME NEW h \in LOG2_WORD_SIZE..(LOG2_ROOT_SIZE - 1)
      PROVE  2^(LOG2_ROOT_SIZE - h) = 2 * 2^(LOG2_ROOT_SIZE - (h + 1))
  <2>1. LOG2_ROOT_SIZE - (h + 1) \in 0..LOG2_ROOT_SIZE
        /\ LOG2_ROOT_SIZE - h = (LOG2_ROOT_SIZE - (h + 1)) + 1
    BY <1>2
  <2>2. 2^((LOG2_ROOT_SIZE - (h + 1)) + 1) = 2 * 2^(LOG2_ROOT_SIZE - (h + 1))
    BY <2>1, PowerAssumption, Zenon
  <2>. QED BY <2>1, <2>2, Zenon
<1>6. \A h \in LOG2_WORD_SIZE..LOG2_ROOT_SIZE : 2^(h - LOG2_WORD_SIZE) \in Nat \ {0}
  BY <1>1, PowPos, Zenon
<1>7. ASSUME NEW h \in LOG2_WORD_SIZE..(LOG2_ROOT_SIZE - 1)
      PROVE  2^(h + 1 - LOG2_WORD_SIZE) = 2 * 2^(h - LOG2_WORD_SIZE)
  <2>1. h - LOG2_WORD_SIZE \in 0..LOG2_ROOT_SIZE
        /\ h + 1 - LOG2_WORD_SIZE = (h - LOG2_WORD_SIZE) + 1
    BY <1>2
  <2>2. 2^((h - LOG2_WORD_SIZE) + 1) = 2 * 2^(h - LOG2_WORD_SIZE)
    BY <2>1, PowerAssumption, Zenon
  <2>. QED BY <2>1, <2>2, Zenon
<1>8. 2^(LOG2_ROOT_SIZE - LOG2_ROOT_SIZE) = 1 /\ 2^(LOG2_WORD_SIZE - LOG2_WORD_SIZE) = 1
  BY <1>3, PowerAssumption, Zenon
<1>. QED BY <1>4, <1>5, <1>6, <1>7, <1>8 DEF WordCount

(* The bottom level holds the leaf hashes of the words.                   *)
LEMMA TreeLeaf ==
    ASSUME NEW w, NEW j \in WordAddrs
    PROVE  TreeHash(w)[LOG2_WORD_SIZE][j] = LeafHash(w[j])
<1>1. LOG2_WORD_SIZE \in LOG2_WORD_SIZE..LOG2_ROOT_SIZE
  BY SizesAssumption
<1>2. TreeHash(w)[LOG2_WORD_SIZE] = [i \in WordAddrs |-> LeafHash(w[i])]
  BY <1>1, TreeHashDef, Zenon
<1>. QED BY <1>2

(* A node above the bottom level is the hash of its two children.         *)
LEMMA TreeUp ==
    ASSUME NEW w, NEW h \in (LOG2_WORD_SIZE + 1)..LOG2_ROOT_SIZE,
           NEW j \in 0..(2^(LOG2_ROOT_SIZE - h) - 1)
    PROVE  TreeHash(w)[h][j] =
             GetConcatHash(TreeHash(w)[h - 1][2 * j], TreeHash(w)[h - 1][2 * j + 1])
<1>1. h \in LOG2_WORD_SIZE..LOG2_ROOT_SIZE /\ h # LOG2_WORD_SIZE
  BY SizesAssumption
<1>2. TreeHash(w)[h] = TreeStep(TreeHash(w)[h - 1], h)
  BY <1>1, TreeHashDef
<1>. QED BY <1>2, Zenon DEF TreeStep

(***************************************************************************)
(* A node depends only on the words under it: two word arrays that agree   *)
(* on the words node j of level h spans give it the same hash.             *)
(***************************************************************************)
TreeLocalAt(u1, u2, h) ==
    \A j \in 0..(2^(LOG2_ROOT_SIZE - h) - 1) :
        (\A p \in ((j * 2^(h - LOG2_WORD_SIZE))..((j + 1) * 2^(h - LOG2_WORD_SIZE) - 1))
                    \cap WordAddrs : u1[p] = u2[p])
            => TreeHash(u1)[h][j] = TreeHash(u2)[h][j]

LEMMA TreeLocal ==
    ASSUME NEW u1, NEW u2
    PROVE  \A h \in LOG2_WORD_SIZE..LOG2_ROOT_SIZE : TreeLocalAt(u1, u2, h)
<1> DEFINE S == {h \in Nat : TreeLocalAt(u1, u2, h)}
<1>1. LOG2_WORD_SIZE \in S
  <2> SUFFICES ASSUME NEW j \in 0..(2^(LOG2_ROOT_SIZE - LOG2_WORD_SIZE) - 1),
                      \A p \in ((j * 2^(LOG2_WORD_SIZE - LOG2_WORD_SIZE))..
                                ((j + 1) * 2^(LOG2_WORD_SIZE - LOG2_WORD_SIZE) - 1))
                                \cap WordAddrs : u1[p] = u2[p]
               PROVE  TreeHash(u1)[LOG2_WORD_SIZE][j] = TreeHash(u2)[LOG2_WORD_SIZE][j]
    BY SizesAssumption DEF TreeLocalAt
  <2>1. j \in WordAddrs /\ 2^(LOG2_WORD_SIZE - LOG2_WORD_SIZE) = 1
    BY TreeWidths DEF WordAddrs
  <2>2. u1[j] = u2[j]
    BY <2>1
  <2>. QED BY <2>1, <2>2, TreeLeaf
<1>2. ASSUME NEW h \in LOG2_WORD_SIZE..(LOG2_ROOT_SIZE - 1), h \in S
      PROVE  h + 1 \in S
  <2> DEFINE x == 2^(h - LOG2_WORD_SIZE)  y == 2^(h + 1 - LOG2_WORD_SIZE)
             z == 2^(LOG2_ROOT_SIZE - h)  z1 == 2^(LOG2_ROOT_SIZE - (h + 1))
             m == h + 1
  <2>1. x \in Nat \ {0} /\ y = 2 * x /\ z1 \in Nat \ {0} /\ z = 2 * z1
    BY TreeWidths, SizesAssumption
  <2>2. TreeLocalAt(u1, u2, h)
    BY <1>2
  <2>3. m \in (LOG2_WORD_SIZE + 1)..LOG2_ROOT_SIZE /\ m - 1 = h /\ m \in Nat
        /\ m - LOG2_WORD_SIZE = h + 1 - LOG2_WORD_SIZE
    BY SizesAssumption
  <2> HIDE DEF x, y, z, z1, m
  <2> SUFFICES ASSUME NEW j \in 0..(z1 - 1),
                      \A p \in ((j * y)..((j + 1) * y - 1)) \cap WordAddrs :
                          u1[p] = u2[p]
               PROVE  TreeHash(u1)[m][j] = TreeHash(u2)[m][j]
    BY <2>3 DEF TreeLocalAt, y, z1, m
  <2>4. 2 * j \in 0..(z - 1) /\ 2 * j + 1 \in 0..(z - 1)
    BY <2>1
  <2>5. /\ (2 * j * x)..((2 * j + 1) * x - 1) \subseteq (j * y)..((j + 1) * y - 1)
        /\ ((2 * j + 1) * x)..((2 * j + 1 + 1) * x - 1) \subseteq (j * y)..((j + 1) * y - 1)
    BY <2>1
  <2>6. TreeHash(u1)[h][2 * j] = TreeHash(u2)[h][2 * j]
        /\ TreeHash(u1)[h][2 * j + 1] = TreeHash(u2)[h][2 * j + 1]
    BY <2>2, <2>4, <2>5 DEF TreeLocalAt, x, z
  <2>7. j \in 0..(2^(LOG2_ROOT_SIZE - m) - 1)
    BY DEF z1, m
  <2>. QED BY <2>3, <2>6, <2>7, TreeUp
<1>3. LOG2_WORD_SIZE..LOG2_ROOT_SIZE \subseteq S
  <2>1. InductiveOn(S, LOG2_WORD_SIZE, LOG2_ROOT_SIZE)
    BY <1>1, <1>2 DEF InductiveOn
  <2>2. LOG2_WORD_SIZE \in Nat /\ LOG2_ROOT_SIZE \in Int
    BY SizesAssumption
  <2> HIDE DEF S
  <2>. QED BY <2>1, <2>2, IntervalInduction
<1>. QED BY <1>3

(***************************************************************************)
(* The word address a names, at level h, the node a \div 2^(h - log2_word_ *)
(* size) that holds it, one of the level's 2^(log2_root_size - h) nodes.  *)
(***************************************************************************)
LEMMA AddrRange ==
    ASSUME NEW a \in WordAddrs
    PROVE  \A h \in LOG2_WORD_SIZE..LOG2_ROOT_SIZE :
               a \div 2^(h - LOG2_WORD_SIZE) \in 0..(2^(LOG2_ROOT_SIZE - h) - 1)
<1> DEFINE S == {h \in Nat : a \div 2^(h - LOG2_WORD_SIZE) \in 0..(2^(LOG2_ROOT_SIZE - h) - 1)}
<1>1. LOG2_WORD_SIZE \in S
  <2>1. 2^(LOG2_WORD_SIZE - LOG2_WORD_SIZE) = 1
        /\ 2^(LOG2_ROOT_SIZE - LOG2_WORD_SIZE) = WordCount
        /\ LOG2_WORD_SIZE \in Nat
    BY TreeWidths, SizesAssumption
  <2>. QED BY <2>1 DEF WordAddrs
<1>2. ASSUME NEW h \in LOG2_WORD_SIZE..(LOG2_ROOT_SIZE - 1), h \in S
      PROVE  h + 1 \in S
  <2> DEFINE x == 2^(h - LOG2_WORD_SIZE)  y == 2^(h + 1 - LOG2_WORD_SIZE)
             q == a \div x  q1 == a \div y
             z == 2^(LOG2_ROOT_SIZE - h)  z1 == 2^(LOG2_ROOT_SIZE - (h + 1))
             m == h + 1
  <2>1. a \in Nat /\ m \in LOG2_WORD_SIZE..LOG2_ROOT_SIZE /\ m \in Nat
    BY SizesAssumption, LayoutAssumption DEF WordAddrs
  <2>2. x \in Nat \ {0} /\ y = 2 * x /\ z = 2 * z1
    BY TreeWidths, SizesAssumption
  <2>3. z1 \in Nat \ {0}
    <3> HIDE DEF m
    <3>1. 2^(LOG2_ROOT_SIZE - m) \in Nat \ {0}
      BY <2>1, TreeWidths
    <3>. QED BY <3>1 DEF m
  <2>4. q \in 0..(z - 1)
    BY <1>2
  <2> HIDE DEF x, y, q, q1, z, z1
  <2>5. q1 = q \div 2
    BY <2>1, <2>2, DivTwice DEF q, q1
  <2>6. q1 \in 0..(z1 - 1)
    BY <2>2, <2>3, <2>4, <2>5
  <2>7. h + 1 \in Nat
    BY <2>1 DEF m
  <2>8. a \div 2^(h + 1 - LOG2_WORD_SIZE) \in 0..(2^(LOG2_ROOT_SIZE - (h + 1)) - 1)
    BY <2>6, Zenon DEF q1, z1, y
  <2> HIDE DEF m
  <2>9. m - LOG2_WORD_SIZE = h + 1 - LOG2_WORD_SIZE
        /\ LOG2_ROOT_SIZE - m = LOG2_ROOT_SIZE - (h + 1)
    BY SizesAssumption DEF m
  <2>10. a \div 2^(m - LOG2_WORD_SIZE) \in 0..(2^(LOG2_ROOT_SIZE - m) - 1)
    BY <2>8, <2>9, Zenon
  <2>11. m \in S
    BY <2>1, <2>10 DEF S
  <2>. QED BY <2>11 DEF m
<1>3. LOG2_WORD_SIZE..LOG2_ROOT_SIZE \subseteq S
  <2>1. InductiveOn(S, LOG2_WORD_SIZE, LOG2_ROOT_SIZE)
    BY <1>1, <1>2 DEF InductiveOn
  <2>2. LOG2_WORD_SIZE \in Nat /\ LOG2_ROOT_SIZE \in Int
    BY SizesAssumption
  <2> HIDE DEF S
  <2>. QED BY <2>1, <2>2, IntervalInduction
<1>. QED BY <1>3

(* The level above level h: its exponents, spans and widths.               *)
LEMMA NextLevel ==
    ASSUME NEW h \in LOG2_WORD_SIZE..(LOG2_ROOT_SIZE - 1), NEW m, m = h + 1
    PROVE  /\ m \in (LOG2_WORD_SIZE + 1)..LOG2_ROOT_SIZE /\ m \in Nat /\ m - 1 = h
           /\ m \in LOG2_WORD_SIZE..LOG2_ROOT_SIZE
           /\ h \in LOG2_WORD_SIZE..LOG2_ROOT_SIZE /\ h \in Nat
           /\ 2^(h - LOG2_WORD_SIZE) \in Nat \ {0}
           /\ 2^(m - LOG2_WORD_SIZE) = 2 * 2^(h - LOG2_WORD_SIZE)
           /\ 2^(LOG2_ROOT_SIZE - m) \in Nat \ {0}
           /\ 2^(LOG2_ROOT_SIZE - h) = 2 * 2^(LOG2_ROOT_SIZE - m)
<1>1. /\ m \in (LOG2_WORD_SIZE + 1)..LOG2_ROOT_SIZE /\ m \in Nat /\ m - 1 = h
      /\ m \in LOG2_WORD_SIZE..LOG2_ROOT_SIZE
      /\ h \in LOG2_WORD_SIZE..LOG2_ROOT_SIZE /\ h \in Nat
      /\ m - LOG2_WORD_SIZE = h + 1 - LOG2_WORD_SIZE
      /\ LOG2_ROOT_SIZE - m = LOG2_ROOT_SIZE - (h + 1)
  BY SizesAssumption
<1>2. 2^(m - LOG2_WORD_SIZE) = 2^(h + 1 - LOG2_WORD_SIZE)
      /\ 2^(LOG2_ROOT_SIZE - m) = 2^(LOG2_ROOT_SIZE - (h + 1))
  BY <1>1, Zenon
<1>3. 2^(h - LOG2_WORD_SIZE) \in Nat \ {0}
      /\ 2^(h + 1 - LOG2_WORD_SIZE) = 2 * 2^(h - LOG2_WORD_SIZE)
      /\ 2^(LOG2_ROOT_SIZE - (h + 1)) \in Nat \ {0}
      /\ 2^(LOG2_ROOT_SIZE - h) = 2 * 2^(LOG2_ROOT_SIZE - (h + 1))
  <2>1. h + 1 \in LOG2_WORD_SIZE..LOG2_ROOT_SIZE
    BY <1>1, SizesAssumption
  <2>2. 2^(LOG2_ROOT_SIZE - (h + 1)) \in Nat \ {0}
    BY <2>1, TreeWidths, Zenon
  <2>. QED BY <1>1, <2>2, TreeWidths
<1>. QED BY <1>1, <1>2, <1>3, Zenon

-----------------------------------------------------------------------------
(***************************************************************************)
(* The proof the logging access takes of word a.  Its sibling at log2 size *)
(* s is the other child of the parent of the node that holds a.           *)
(***************************************************************************)
SiblingIndex(a, s) ==
    LET j == a \div 2^(s - LOG2_WORD_SIZE) IN IF j % 2 = 0 THEN j + 1 ELSE j - 1

(* The proof of word a with its target hash replaced by that of word v.    *)
UpdatedProof(w, a, v) == [WordProof(w, a) EXCEPT !.target_hash = LeafHash(v)]

LEMMA UpdatedProofFields ==
    ASSUME NEW w, NEW a, NEW v
    PROVE  LET P == UpdatedProof(w, a, v) IN
           /\ P.log2_root_size = LOG2_ROOT_SIZE
           /\ P.log2_target_size = LOG2_WORD_SIZE
           /\ P.target_address = a * 2^LOG2_WORD_SIZE
           /\ P.target_hash = LeafHash(v)
           /\ P.root_hash = TreeHash(w)[LOG2_ROOT_SIZE][0]
           /\ P.siblings = [s \in LOG2_WORD_SIZE..(LOG2_ROOT_SIZE - 1) |->
                               TreeHash(w)[s][SiblingIndex(a, s)]]
BY DEF UpdatedProof, WordProof, NewProof, SiblingIndex

(***************************************************************************)
(* Folding the proof of word a with the hash of a new word v climbs the   *)
(* tree in which a holds v: at each level it reaches the node above a.    *)
(* The siblings were taken before the write, but they span no word a.     *)
(***************************************************************************)
LEMMA PathFold ==
    ASSUME NEW w, NEW a \in WordAddrs, NEW v, NEW w2,
           w2[a] = v, \A p \in WordAddrs : p # a => w2[p] = w[p]
    PROVE  \A h \in LOG2_WORD_SIZE..LOG2_ROOT_SIZE :
               ProofFold(UpdatedProof(w, a, v))[h] =
                   TreeHash(w2)[h][a \div 2^(h - LOG2_WORD_SIZE)]
<1> DEFINE P  == UpdatedProof(w, a, v)
           S  == {h \in Nat : ProofFold(P)[h] =
                                  TreeHash(w2)[h][a \div 2^(h - LOG2_WORD_SIZE)]}
<1>0. /\ P.log2_root_size = LOG2_ROOT_SIZE
      /\ P.log2_target_size = LOG2_WORD_SIZE
      /\ P.target_address = a * 2^LOG2_WORD_SIZE
      /\ P.target_hash = LeafHash(v)
      /\ P.siblings = [s \in LOG2_WORD_SIZE..(LOG2_ROOT_SIZE - 1) |->
                          TreeHash(w)[s][SiblingIndex(a, s)]]
  BY UpdatedProofFields
<1>1. a \in Nat /\ w2[a] = v /\ \A p \in WordAddrs : p # a => w2[p] = w[p]
  BY DEF WordAddrs
<1> HIDE DEF P
<1>2. LOG2_WORD_SIZE \in S
  <2>1. ProofFold(P)[LOG2_WORD_SIZE] = LeafHash(v)
    BY <1>0, ProofFoldDef, SizesAssumption
  <2>2. a \div 2^(LOG2_WORD_SIZE - LOG2_WORD_SIZE) = a
    <3> DEFINE x == 2^(LOG2_WORD_SIZE - LOG2_WORD_SIZE)
    <3>1. x = 1
      BY TreeWidths
    <3> HIDE DEF x
    <3>2. a \div x = a
      BY <1>1, <3>1
    <3>. QED BY <3>2, Zenon DEF x
  <2>3. TreeHash(w2)[LOG2_WORD_SIZE][a] = LeafHash(v)
    BY <1>1, TreeLeaf
  <2>. QED BY <2>1, <2>2, <2>3, SizesAssumption DEF S
<1>3. ASSUME NEW h \in LOG2_WORD_SIZE..(LOG2_ROOT_SIZE - 1), h \in S
      PROVE  h + 1 \in S
  <2> DEFINE m == h + 1
  <2>1. m = h + 1
    OBVIOUS
  <2> HIDE DEF m
  <2>2. /\ m \in (LOG2_WORD_SIZE + 1)..LOG2_ROOT_SIZE /\ m \in Nat /\ m - 1 = h
        /\ m \in LOG2_WORD_SIZE..LOG2_ROOT_SIZE
        /\ h \in LOG2_WORD_SIZE..LOG2_ROOT_SIZE /\ h \in Nat
        /\ 2^(h - LOG2_WORD_SIZE) \in Nat \ {0}
        /\ 2^(m - LOG2_WORD_SIZE) = 2 * 2^(h - LOG2_WORD_SIZE)
        /\ 2^(LOG2_ROOT_SIZE - m) \in Nat \ {0}
        /\ 2^(LOG2_ROOT_SIZE - h) = 2 * 2^(LOG2_ROOT_SIZE - m)
    BY <2>1, NextLevel
  <2> DEFINE x  == 2^(h - LOG2_WORD_SIZE)  y  == 2^(m - LOG2_WORD_SIZE)
             z  == 2^(LOG2_ROOT_SIZE - h)  z1 == 2^(LOG2_ROOT_SIZE - m)
             q  == a \div x                q1 == a \div y
  <2>3. x \in Nat \ {0} /\ y = 2 * x /\ z1 \in Nat \ {0} /\ z = 2 * z1
    BY <2>2, Zenon
  <2>4. q \in 0..(z - 1) /\ q1 \in 0..(z1 - 1)
    <3>1. a \div 2^(h - LOG2_WORD_SIZE) \in 0..(2^(LOG2_ROOT_SIZE - h) - 1)
      BY <2>2, AddrRange, Zenon
    <3>2. a \div 2^(m - LOG2_WORD_SIZE) \in 0..(2^(LOG2_ROOT_SIZE - m) - 1)
      BY <2>2, AddrRange, Zenon
    <3>. QED BY <3>1, <3>2, Zenon DEF q, q1, x, y, z, z1
  <2>5. ProofFold(P)[h] = TreeHash(w2)[h][q]
    BY <1>3, <2>2 DEF S
  <2>6. Bit(P.target_address, h) <=> q % 2 = 1
    <3>1. h - LOG2_WORD_SIZE \in 0..(LOG2_ROOT_SIZE - LOG2_WORD_SIZE)
          /\ LOG2_WORD_SIZE + (h - LOG2_WORD_SIZE) = h /\ LOG2_WORD_SIZE \in 0..LOG2_ROOT_SIZE
      BY <2>2, SizesAssumption
    <3>2. (a * 2^LOG2_WORD_SIZE) \div 2^(LOG2_WORD_SIZE + (h - LOG2_WORD_SIZE))
              = a \div 2^(h - LOG2_WORD_SIZE)
      BY <3>1, <1>1, ShiftQuotient, Zenon
    <3>3. (a * 2^LOG2_WORD_SIZE) \div 2^h = q
      BY <3>1, <3>2, Zenon DEF q, x
    <3>. QED BY <3>3, <1>0, Zenon DEF Bit
  <2>7. P.siblings[h] = TreeHash(w)[h][IF q % 2 = 0 THEN q + 1 ELSE q - 1]
    BY <1>0, <2>2 DEF SiblingIndex, q, x
  <2> HIDE DEF x, y, z, z1, q, q1
  <2>8. q1 = q \div 2 /\ x * q <= a /\ a < x * q + x /\ q \in Nat /\ q1 \in Nat
    <3>1. q1 = q \div 2
      BY <1>1, <2>3, DivTwice DEF q, q1
    <3>2. x * q <= a /\ a < x * q + x
      BY <1>1, <2>3, DivBounds DEF q
    <3>. QED BY <2>4, <3>1, <3>2
  <2>9. ProofFold(P)[m] =
          IF Bit(P.target_address, h)
          THEN GetConcatHash(P.siblings[h], ProofFold(P)[h])
          ELSE GetConcatHash(ProofFold(P)[h], P.siblings[h])
    <3>1. m \in LOG2_WORD_SIZE..LOG2_ROOT_SIZE /\ m # LOG2_WORD_SIZE
      BY <2>2, SizesAssumption
    <3>. QED BY <1>0, <2>2, <3>1, ProofFoldDef, SizesAssumption
  <2>10. TreeHash(w2)[m][q1] =
           GetConcatHash(TreeHash(w2)[h][2 * q1], TreeHash(w2)[h][2 * q1 + 1])
    <3>1. q1 \in 0..(2^(LOG2_ROOT_SIZE - m) - 1)
      BY <2>4 DEF z1
    <3>. QED BY <2>2, <3>1, TreeUp
  <2>11. TreeLocalAt(w, w2, h)
    BY <2>2, TreeLocal
  <2>12. ASSUME NEW j \in 0..(z - 1), j # q
         PROVE  TreeHash(w)[h][j] = TreeHash(w2)[h][j]
    <3>1. ASSUME NEW p \in ((j * x)..((j + 1) * x - 1)) \cap WordAddrs
          PROVE  p # a
      <4>1. p \in Int /\ j \in Int /\ x * j <= p /\ p < x * j + x
        BY <2>3
      <4>2. p \div x = j
        BY <4>1, <2>3, DivUnique
      <4>3. a \div x = q
        BY DEF q
      <4>. QED BY <4>2, <4>3, <2>12
    <3>2. \A p \in ((j * x)..((j + 1) * x - 1)) \cap WordAddrs : w[p] = w2[p]
      BY <3>1, <1>1
    <3>. QED BY <2>11, <3>2, <2>12 DEF TreeLocalAt, x, z
  <2>13. ProofFold(P)[m] = TreeHash(w2)[m][q1]
    <3>1. CASE q % 2 = 1
      <4>1. q = 2 * q1 + 1 /\ 2 * q1 \in 0..(z - 1) /\ 2 * q1 # q
        <5>1. q = 2 * q1 + 1
          BY <2>8, <3>1
        <5>2. 2 * q1 \in 0..(z - 1)
          BY <2>3, <2>4
        <5>. QED BY <5>1, <5>2, <2>8
      <4>2. TreeHash(w)[h][2 * q1] = TreeHash(w2)[h][2 * q1]
        BY <4>1, <2>12
      <4>. QED BY <2>5, <2>6, <2>7, <2>9, <2>10, <3>1, <4>1, <4>2
    <3>2. CASE q % 2 # 1
      <4>3. q % 2 = 0
        BY <2>8, <3>2
      <4>1. q = 2 * q1 /\ 2 * q1 + 1 \in 0..(z - 1) /\ 2 * q1 + 1 # q
        <5>1. q = 2 * q1
          BY <2>8, <4>3
        <5>2. 2 * q1 + 1 \in 0..(z - 1)
          BY <2>3, <2>4
        <5>. QED BY <5>1, <5>2, <2>8
      <4>2. TreeHash(w)[h][2 * q1 + 1] = TreeHash(w2)[h][2 * q1 + 1]
        BY <4>1, <2>12
      <4>. QED BY <2>5, <2>6, <2>7, <2>9, <2>10, <3>2, <4>1, <4>2, <4>3
    <3>. QED BY <3>1, <3>2
  <2>14. m \in S
    BY <2>2, <2>13 DEF S, q1, y
  <2>. QED BY <2>14 DEF m
<1>4. LOG2_WORD_SIZE..LOG2_ROOT_SIZE \subseteq S
  <2>1. InductiveOn(S, LOG2_WORD_SIZE, LOG2_ROOT_SIZE)
    BY <1>2, <1>3 DEF InductiveOn
  <2>2. LOG2_WORD_SIZE \in Nat /\ LOG2_ROOT_SIZE \in Int
    BY SizesAssumption
  <2> HIDE DEF S
  <2>. QED BY <2>1, <2>2, IntervalInduction
<1>. QED BY <1>4 DEF S, P

(* The proof of word a, folded with v, gives the root after a := v.        *)
LEMMA WordProofRoot ==
    ASSUME NEW w, DOMAIN w = WordAddrs, NEW a \in WordAddrs, NEW v
    PROVE  ProofRoot(UpdatedProof(w, a, v)) = RootOf([w EXCEPT ![a] = v])
<1> DEFINE P == UpdatedProof(w, a, v)  w2 == [w EXCEPT ![a] = v]
<1>0. \A h \in LOG2_WORD_SIZE..LOG2_ROOT_SIZE :
          ProofFold(P)[h] = TreeHash(w2)[h][a \div 2^(h - LOG2_WORD_SIZE)]
  <2>1. w2[a] = v /\ \A p \in WordAddrs : p # a => w2[p] = w[p]
    OBVIOUS
  <2> HIDE DEF w2, P
  <2>. QED BY <2>1, PathFold DEF P
<1>1. ProofRoot(P) = ProofFold(P)[LOG2_ROOT_SIZE]
  <2>1. P.log2_root_size = LOG2_ROOT_SIZE /\ P.log2_target_size = LOG2_WORD_SIZE
    BY DEF UpdatedProof, WordProof, NewProof
  <2>. QED BY <2>1, ProofFoldDef, SizesAssumption
<1> DEFINE x == 2^(LOG2_ROOT_SIZE - LOG2_WORD_SIZE)
<1>2. ProofFold(P)[LOG2_ROOT_SIZE] = TreeHash(w2)[LOG2_ROOT_SIZE][a \div x]
  <2>1. LOG2_ROOT_SIZE \in LOG2_WORD_SIZE..LOG2_ROOT_SIZE
    BY SizesAssumption
  <2>. QED BY <2>1, <1>0, Zenon DEF P, w2
<1>3. x = WordCount /\ WordCount \in Nat \ {0} /\ a \in 0..(WordCount - 1)
  BY TreeWidths, SizesAssumption DEF WordAddrs
<1> HIDE DEF x
<1>4. a \div x = 0
  BY <1>3, DivUnique
<1>. QED BY <1>1, <1>2, <1>4 DEF RootOf, P, w2

(* The proof the logging access takes of a word verifies.                  *)
LEMMA WordProofVerifies ==
    ASSUME NEW w, w = [x \in WordAddrs |-> w[x]], NEW a \in WordAddrs
    PROVE  Verify(WordProof(w, a))
<1>1. UpdatedProof(w, a, w[a]) = WordProof(w, a)
  BY DEF UpdatedProof, WordProof, NewProof
<1>2. [w EXCEPT ![a] = w[a]] = w /\ DOMAIN w = WordAddrs
  OBVIOUS
<1>3. ProofRoot(WordProof(w, a)) = RootOf(w)
  BY <1>1, <1>2, WordProofRoot
<1>4. WordProof(w, a).root_hash = RootOf(w)
  BY DEF WordProof, NewProof, RootOf
<1>. QED BY <1>3, <1>4 DEF Verify

(***************************************************************************)
(* A record the logging access appends passes the verifier's checks       *)
(* against the root of the words it was taken from, and leads it to the  *)
(* root of the words after the access.                                     *)
(***************************************************************************)
LEMMA RecordOk ==
    ASSUME NEW w, w = [x \in WordAddrs |-> w[x]], NEW d, NEW a \in WordAddrs,
           NEW new, d[1] = "read" => new = w[a]
    PROVE  /\ RecordError(AccessRecord(w, d, a, new), RootOf(w)) = "none"
           /\ RootAfter(AccessRecord(w, d, a, new), RootOf(w)) =
                  RootOf([w EXCEPT ![a] = new])
<1> DEFINE rec == AccessRecord(w, d, a, new)
<1>1. /\ rec.proof = WordProof(w, a)
      /\ rec.address = a * 2^LOG2_WORD_SIZE
      /\ rec.read = w[a]
      /\ rec.written = new
      /\ rec.kind = IF d[1] = "read" THEN "read" ELSE "write"
  BY DEF AccessRecord
<1>2. /\ WordProof(w, a).log2_root_size = LOG2_ROOT_SIZE
      /\ WordProof(w, a).log2_target_size = LOG2_WORD_SIZE
      /\ WordProof(w, a).target_address = a * 2^LOG2_WORD_SIZE
      /\ WordProof(w, a).root_hash = RootOf(w)
      /\ WordProof(w, a).target_hash = LeafHash(w[a])
  BY DEF WordProof, NewProof, RootOf
<1>3. Verify(WordProof(w, a))
  BY WordProofVerifies
<1> HIDE DEF rec
<1>4. RecordError(rec, RootOf(w)) = "none"
  BY <1>1, <1>2, <1>3 DEF RecordError
<1>5. ASSUME d[1] = "read"
      PROVE  RootAfter(rec, RootOf(w)) = RootOf([w EXCEPT ![a] = new])
  <2>1. [w EXCEPT ![a] = new] = w
    BY <1>5
  <2>. QED BY <1>1, <1>5, <2>1 DEF RootAfter
<1>6. ASSUME d[1] # "read"
      PROVE  RootAfter(rec, RootOf(w)) = RootOf([w EXCEPT ![a] = new])
  <2>1. [rec.proof EXCEPT !.target_hash = LeafHash(new)] = UpdatedProof(w, a, new)
    BY <1>1 DEF UpdatedProof
  <2>2. ProofRoot(UpdatedProof(w, a, new)) = RootOf([w EXCEPT ![a] = new])
    BY WordProofRoot
  <2>. QED BY <1>1, <1>6, <2>1, <2>2 DEF RootAfter
<1>. QED BY <1>4, <1>5, <1>6 DEF rec

-----------------------------------------------------------------------------
(***************************************************************************)
(* The verifier's replay as a function of the number of records checked.  *)
(***************************************************************************)
ReplayStep(l, prev, k) ==
    IF prev.error # "none" THEN prev
    ELSE IF RecordError(l[k], prev.root) # "none"
    THEN [prev EXCEPT !.error = RecordError(l[k], prev.root)]
    ELSE [root |-> RootAfter(l[k], prev.root), error |-> "none"]

ReplayFn(pre_root, log_) ==
    LET replay[k \in 0..Len(log_)] ==
            IF k = 0 THEN [root |-> pre_root, error |-> "none"]
            ELSE LET prev == replay[k - 1] IN
                 IF prev.error # "none" THEN prev
                 ELSE IF RecordError(log_[k], prev.root) # "none"
                 THEN [prev EXCEPT !.error = RecordError(log_[k], prev.root)]
                 ELSE [root |-> RootAfter(log_[k], prev.root), error |-> "none"]
    IN  replay

LEMMA ReplayFnDef ==
    ASSUME NEW pre_root, NEW l, Len(l) \in Nat
    PROVE  /\ Replay(pre_root, l) = ReplayFn(pre_root, l)[Len(l)]
           /\ ReplayFn(pre_root, l) =
                [k \in 0..Len(l) |->
                    IF k = 0 THEN [root |-> pre_root, error |-> "none"]
                    ELSE ReplayStep(l, ReplayFn(pre_root, l)[k - 1], k)]
<1> DEFINE Step(v, k) == ReplayStep(l, v, k)
<1>1. Replay(pre_root, l) = ReplayFn(pre_root, l)[Len(l)]
  BY DEF Replay, ReplayFn
<1>2. FiniteNatInductiveDefHypothesis(ReplayFn(pre_root, l),
          [root |-> pre_root, error |-> "none"], Step, 0, Len(l))
  BY DEF FiniteNatInductiveDefHypothesis, ReplayFn, ReplayStep
<1>3. FiniteNatInductiveDefConclusion(ReplayFn(pre_root, l),
          [root |-> pre_root, error |-> "none"], Step, 0, Len(l))
  BY <1>2, FiniteNatInductiveDef
<1>. QED BY <1>1, <1>3 DEF FiniteNatInductiveDefConclusion

(***************************************************************************)
(* Appending a record leaves the replay of the records before it as it    *)
(* was: the verifier checks the log in order.                              *)
(***************************************************************************)
LEMMA ReplayAppend ==
    ASSUME NEW pre_root, NEW S, NEW l \in Seq(S), NEW r \in S
    PROVE  /\ Replay(pre_root, Append(l, r)) =
                  ReplayStep(Append(l, r), ReplayFn(pre_root, l)[Len(l)], Len(l) + 1)
           /\ Append(l, r)[Len(l) + 1] = r
<1> DEFINE l2 == Append(l, r)  n == Len(l)
           T  == {k \in Nat : k <= n => ReplayFn(pre_root, l2)[k] = ReplayFn(pre_root, l)[k]}
<1>1. n \in Nat /\ Len(l2) = n + 1 /\ l2[n + 1] = r /\ \A k \in 1..n : l2[k] = l[k]
  BY AppendProperties, LenProperties
<1> HIDE DEF l2, n
<1>2. /\ ReplayFn(pre_root, l2) =
           [k \in 0..(n + 1) |->
               IF k = 0 THEN [root |-> pre_root, error |-> "none"]
               ELSE ReplayStep(l2, ReplayFn(pre_root, l2)[k - 1], k)]
      /\ Replay(pre_root, l2) = ReplayFn(pre_root, l2)[n + 1]
  BY <1>1, ReplayFnDef
<1>3. ReplayFn(pre_root, l) =
           [k \in 0..n |->
               IF k = 0 THEN [root |-> pre_root, error |-> "none"]
               ELSE ReplayStep(l, ReplayFn(pre_root, l)[k - 1], k)]
  BY <1>1, ReplayFnDef DEF n
<1>4. 0 \in T
  BY <1>1, <1>2, <1>3 DEF T
<1>5. ASSUME NEW k \in 0..(n - 1), k \in T PROVE k + 1 \in T
  <2> DEFINE m == k + 1
  <2>1. m \in 0..n /\ m \in 0..(n + 1) /\ m - 1 = k /\ m # 0 /\ m \in Nat
    BY <1>1
  <2> HIDE DEF m
  <2>2. ReplayFn(pre_root, l2)[k] = ReplayFn(pre_root, l)[k]
    <3>1. k \in Nat /\ k <= n
      BY <1>1
    <3>. QED BY <1>5, <3>1 DEF T
  <2>3. ReplayFn(pre_root, l2)[m] = ReplayStep(l2, ReplayFn(pre_root, l2)[k], m)
    <3>1. ReplayFn(pre_root, l2)[m] = ReplayStep(l2, ReplayFn(pre_root, l2)[m - 1], m)
      BY <1>2, <2>1, Zenon
    <3>. QED BY <3>1, <2>1, Zenon
  <2>4. ReplayFn(pre_root, l)[m] = ReplayStep(l, ReplayFn(pre_root, l)[k], m)
    <3>1. ReplayFn(pre_root, l)[m] = ReplayStep(l, ReplayFn(pre_root, l)[m - 1], m)
      BY <1>3, <2>1, Zenon
    <3>. QED BY <3>1, <2>1, Zenon
  <2>5. \A v : ReplayStep(l2, v, m) = ReplayStep(l, v, m)
    BY <1>1, <2>1 DEF ReplayStep
  <2>6. m \in T
    BY <2>1, <2>2, <2>3, <2>4, <2>5 DEF T
  <2>. QED BY <2>6 DEF m
<1>6. 0..n \subseteq T
  <2>1. InductiveOn(T, 0, n)
    BY <1>4, <1>5 DEF InductiveOn
  <2>2. 0 \in Nat /\ n \in Int
    BY <1>1
  <2> HIDE DEF T
  <2>. QED BY <2>1, <2>2, IntervalInduction
<1>7. ReplayFn(pre_root, l2)[n] = ReplayFn(pre_root, l)[n]
  BY <1>1, <1>6 DEF T
<1>8. n + 1 \in 0..(n + 1) /\ n + 1 # 0 /\ (n + 1) - 1 = n
  BY <1>1
<1>9. Replay(pre_root, l2) = ReplayStep(l2, ReplayFn(pre_root, l2)[n], n + 1)
  BY <1>2, <1>8
<1>. QED BY <1>1, <1>7, <1>9 DEF l2, n

(***************************************************************************)
(* The inductive invariant behind StepLogVerifies: the verifier, replaying *)
(* the log so far from the root the step began with, accepts every record  *)
(* and reaches the root of the current words.  StepLogVerifies alone is    *)
(* not inductive: it says nothing of the words being the leaves of a dense *)
(* array, which RecordOk needs for the proof of the next access to verify. *)
(***************************************************************************)
ReplayInv ==
    Replay(root_before, log) = [root |-> RootOf(words), error |-> "none"]

(* One logged call keeps the replay accepting and at the current root.     *)
LEMMA LoggedCallReplay ==
    ASSUME IInv, ReplayInv, NEW m \in Catalog, NEW i \in IndicesOf(m[2]),
           NEW v \in ArgsOf(m), LoggedCall(m, i, v)
    PROVE  ReplayInv'
<1> DEFINE d   == Forward(m)
           loc == LocOf(d[2], i)
           a   == LocAddr[loc]
           new == IF d[1] = "read" THEN words[a] ELSE Update(words[a], d, v)
           rec == AccessRecord(words, d, a, new)
           R   == [root |-> RootOf(words), error |-> "none"]
<1>1. d[2] = m[2] /\ loc \in Loc
  BY ForwardField, LocOfInLoc
<1>2. a \in WordAddrs /\ words = [x \in WordAddrs |-> words[x]]
  BY <1>1, LocAddrInWords DEF IInv
<1>3. /\ words' = [words EXCEPT ![a] = new]
      /\ log' = Append(log, rec)
      /\ root_before' = root_before
  BY DEF LoggedCall
<1>4. d[1] = "read" => new = words[a]
  OBVIOUS
<1>5. /\ RecordError(rec, RootOf(words)) = "none"
      /\ RootAfter(rec, RootOf(words)) = RootOf([words EXCEPT ![a] = new])
  BY <1>2, <1>4, RecordOk
<1>6. log \in Seq(LogRecords \cup {rec}) /\ rec \in LogRecords \cup {rec}
      /\ Len(log) \in Nat
  BY SeqMonotonic, LenProperties DEF IInv
<1> HIDE DEF rec, new, a
<1>7. /\ Replay(root_before, Append(log, rec)) =
           ReplayStep(Append(log, rec), ReplayFn(root_before, log)[Len(log)], Len(log) + 1)
      /\ Append(log, rec)[Len(log) + 1] = rec
  BY <1>6, ReplayAppend
<1>8. ReplayFn(root_before, log)[Len(log)] = R
  BY <1>6, ReplayFnDef DEF ReplayInv
<1>9. ReplayStep(Append(log, rec), R, Len(log) + 1) =
          [root |-> RootOf([words EXCEPT ![a] = new]), error |-> "none"]
  BY <1>5, <1>7 DEF ReplayStep
<1>. QED BY <1>3, <1>7, <1>8, <1>9 DEF ReplayInv

(* The replay invariant holds in every state of a run.                     *)
LEMMA ReplayInvInvariant ==
    Spec => [](IInv /\ ReplayInv)
<1>1. Init => IInv /\ ReplayInv
  <2> SUFFICES ASSUME Init PROVE IInv /\ ReplayInv
    OBVIOUS
  <2>1. IInv
    BY InitStep
  <2>2. log = << >> /\ Len(log) = 0 /\ root_before = RootOf(words)
    BY DEF Init
  <2>3. Replay(root_before, log) = [root |-> root_before, error |-> "none"]
    <3>1. /\ Replay(root_before, log) = ReplayFn(root_before, log)[Len(log)]
          /\ ReplayFn(root_before, log) =
               [k \in 0..Len(log) |->
                  IF k = 0 THEN [root |-> root_before, error |-> "none"]
                  ELSE ReplayStep(log, ReplayFn(root_before, log)[k - 1], k)]
      <4>1. Len(log) \in Nat
        BY <2>2
      <4>. QED BY <4>1, ReplayFnDef
    <3>. QED BY <2>2, <3>1
  <2>. QED BY <2>1, <2>2, <2>3 DEF ReplayInv
<1>2. IInv /\ ReplayInv /\ [Next]_vars => IInv' /\ ReplayInv'
  <2> SUFFICES ASSUME IInv, ReplayInv, [Next]_vars PROVE IInv' /\ ReplayInv'
    OBVIOUS
  <2>1. CASE Next
    BY <2>1, LoggedCallStep, LoggedCallReplay DEF Next
  <2>2. CASE UNCHANGED vars
    BY <2>2 DEF vars, IInv, TypeOK, LogRecords, ReplayInv
  <2>. QED BY <2>1, <2>2
<1>. QED BY <1>1, <1>2, PTL DEF Spec

(***************************************************************************)
(* Spec sections 4.G and 4.H, for every tree size and every number of     *)
(* calls: at every point of a step, verify_step_transition accepts the     *)
(* log the logging access has written so far, from the root the step began *)
(* with to the machine's current root.                                     *)
(***************************************************************************)
THEOREM StepLogVerifiesCorrect == Spec => []StepLogVerifies
<1>1. ReplayInv => StepLogVerifies
  BY DEF ReplayInv, StepLogVerifies, VerifyStepTransition
<1>. QED BY <1>1, ReplayInvInvariant, PTL

=============================================================================
