------------------------- MODULE LoggedStateAccess -------------------------
(***************************************************************************)
(* The logging state access (component G, spec section 4.G) behind the    *)
(* i_state_access interface, used by step.  Its code is not under src/, so *)
(* its do_ methods follow the spec: each access resolves the word address  *)
(* of its component, takes the word before the access and its proof        *)
(* against the current root, applies a write, and appends an access       *)
(* record to the log.  The machine state is a dense array of words, words, *)
(* whose Merkle root is the machine's root hash.                           *)
(*                                                                         *)
(* The interface in front of it (Forward, from i-state-access.h) is the    *)
(* one the direct access has; the initial words are filled from an        *)
(* initial state of the direct access (StateAccess) through the layout.    *)
(***************************************************************************)
EXTENDS StateAccessInterface, StepLogVerifier

(* Words 0..ShadowWords-1 hold the registers, CSRs, iflags and PMAs.       *)
ShadowWords == 64

(* The number of words of the machine state, the leaves of its tree.      *)
WordCount == 2^(LOG2_ROOT_SIZE - LOG2_WORD_SIZE)

(***************************************************************************)
(* The shadow words lie in the tree, and every memory word is aligned and  *)
(* lies above the shadow and inside the tree.                              *)
(***************************************************************************)
ASSUME LayoutAssumption ==
    /\ LOG2_WORD_SIZE = 3
    /\ PmaIndices \subseteq 0..4
    /\ WordCount \in Nat
    /\ ShadowWords <= WordCount
    /\ Paddrs \subseteq Nat
    /\ \A a \in Paddrs : /\ a % 8 = 0
                         /\ ShadowWords <= a \div 8
                         /\ a \div 8 < WordCount

VARIABLES
    words,        \* words[a]: the machine-state word at word address a
    log,          \* the access log of the step so far
    ret,          \* the last interface call and what it returned
    root_before   \* the root hash of the machine when the step began

vars == <<words, log, ret, root_before>>

WordAddrs == 0..(WordCount - 1)

(***************************************************************************)
(* The word address a component resolves to (step 1 of spec 4.G): the    *)
(* registers, then the CSRs in the interface's order, then iflags and the *)
(* PMA entries; a memory word is at its physical address.                 *)
(***************************************************************************)
AddrOf(loc) ==
    LET k == CHOOSE j \in DOMAIN CsrSeq : CsrSeq[j] = loc[1] IN
    IF loc[1] = "x"           THEN loc[2]
    ELSE IF loc[1] \in Csrs   THEN 31 + k
    ELSE IF loc[1] = "iflags" THEN 58
    ELSE IF loc[1] = "pma"    THEN 59 + loc[2]
    ELSE loc[2] \div 8

(* The machine state the words hold, location by location.                *)
LocAddr == [l \in Loc |-> AddrOf(l)]

StOf(w) == [l \in Loc |-> w[LocAddr[l]]]

(***************************************************************************)
(* The dense Merkle tree over the words: node[h][j] is the hash of the    *)
(* j-th subtree of log2 size h.                                           *)
(***************************************************************************)
TreeHash(w) ==
    LET node[h \in LOG2_WORD_SIZE..LOG2_ROOT_SIZE] ==
            IF h = LOG2_WORD_SIZE
            THEN [j \in WordAddrs |-> LeafHash(w[j])]
            ELSE LET below == node[h - 1] IN
                 [j \in 0..(2^(LOG2_ROOT_SIZE - h) - 1) |->
                     GetConcatHash(below[2 * j], below[2 * j + 1])]
    IN  node

RootOf(w) == TreeHash(w)[LOG2_ROOT_SIZE][0]

(* The proof of the word at word address a (step 3 of spec 4.G).          *)
WordProof(w, a) ==
    LET node == TreeHash(w)
        sib(s) == LET j == a \div 2^(s - LOG2_WORD_SIZE) IN
                  IF j % 2 = 0 THEN j + 1 ELSE j - 1
    IN  [NewProof(LOG2_ROOT_SIZE, LOG2_WORD_SIZE, ZeroWordHash) EXCEPT
            !.target_address = a * 2^LOG2_WORD_SIZE,
            !.target_hash    = LeafHash(w[a]),
            !.root_hash      = node[LOG2_ROOT_SIZE][0],
            !.siblings       = [s \in LOG2_WORD_SIZE..(LOG2_ROOT_SIZE - 1) |->
                                   node[s][sib(s)]]]

(* Mutant: the record's kind taken from the do_ method, so that          *)
(* set_iflags_H and reset_iflags_I are logged as "set" and "reset".        *)
AccessRecordRawKind(w, d, a, new) ==
    [kind    |-> d[1],
     address |-> a * 2^LOG2_WORD_SIZE,
     read    |-> w[a],
     written |-> new,
     proof   |-> WordProof(w, a)]

(* Mutant: the proof taken after the write was applied.                    *)
AccessRecordProofAfter(w, d, a, new) ==
    [kind    |-> IF d[1] = "read" THEN "read" ELSE "write",
     address |-> a * 2^LOG2_WORD_SIZE,
     read    |-> w[a],
     written |-> new,
     proof   |-> WordProof([w EXCEPT ![a] = new], a)]

(* The record of an access to word a, with the words w before it.          *)
AccessRecord(w, d, a, new) ==
    [kind    |-> IF d[1] = "read" THEN "read" ELSE "write",
     address |-> a * 2^LOG2_WORD_SIZE,
     read    |-> w[a],
     written |-> new,
     proof   |-> WordProof(w, a)]

(***************************************************************************)
(* A call of interface method m on index i with argument v: the interface *)
(* forwards to do_ method d of the logging access, which logs and applies *)
(* it.                                                                     *)
(***************************************************************************)
LoggedCall(m, i, v) ==
    LET d   == Forward(m)
        a   == LocAddr[LocOf(d[2], i)]
        new == IF d[1] = "read" THEN words[a] ELSE Update(words[a], d, v)
    IN  /\ Len(log) < MaxCalls
        /\ words' = [words EXCEPT ![a] = new]
        /\ log' = Append(log, AccessRecord(words, d, a, new))
        /\ ret' = [call  |-> m, index |-> i, arg |-> v,
                   value |-> IF d[1] = "read" THEN FieldValue(words[a], d[2])
                             ELSE None]
        /\ UNCHANGED root_before

Direct == INSTANCE StateAccess WITH st <- StOf(words), calls <- Len(log)

Init ==
    /\ \E s \in Direct!InitialStates :
           words = [a \in WordAddrs |->
                       IF \E l \in Loc : LocAddr[l] = a
                       THEN s[CHOOSE l \in Loc : LocAddr[l] = a] ELSE 0]
    /\ log = << >>
    /\ ret = [call |-> <<"none", "none">>, index |-> 0, arg |-> None,
              value |-> None]
    /\ root_before = RootOf(words)

Next ==
    \E m \in Catalog : \E i \in IndicesOf(m[2]) : \E v \in ArgsOf(m) :
        LoggedCall(m, i, v)

Spec == Init /\ [][Next]_vars

-----------------------------------------------------------------------------
TypeOK ==
    /\ DOMAIN words = WordAddrs
    /\ Len(log) \in 0..MaxCalls
    /\ \A k \in DOMAIN log : log[k].kind \in {"read", "write"}

(***************************************************************************)
(* Spec sections 4.G and 4.H: at every point of a step, the log so far    *)
(* replayed by the verifier from the root the machine had when the step    *)
(* began is accepted and ends at the machine's current root: each record's *)
(* proof is against the root left by the records before it.               *)
(***************************************************************************)
StepLogVerifies ==
    VerifyStepTransition(root_before, log, RootOf(words)) = "ok"

(***************************************************************************)
(* The fields of record rec a forger may change: the word read, the word  *)
(* a write wrote, the address, or sibling s of the proof.                 *)
(***************************************************************************)
TamperFields(rec) ==
    {<<"read", 0>>, <<"address", 0>>}
        \cup (IF rec.kind = "write" THEN {<<"written", 0>>} ELSE {})
        \cup {<<"sibling", s>> : s \in DOMAIN rec.proof.siblings}

(* Log l with field t of record k changed: a word to None, which no access *)
(* uses, the address to the next word's, a sibling to the hash of two     *)
(* copies of it.                                                           *)
Tamper(l, k, t) ==
    CASE t[1] = "read"    -> [l EXCEPT ![k].read = None]
      [] t[1] = "written" -> [l EXCEPT ![k].written = None]
      [] t[1] = "address" -> [l EXCEPT ![k].address = @ + 2^LOG2_WORD_SIZE]
      [] t[1] = "sibling" -> [l EXCEPT ![k].proof.siblings[t[2]] = GetConcatHash(@, @)]

(***************************************************************************)
(* Spec section 8, scenario 5: changing any single field of the log the   *)
(* logging access produced, or any single sibling of one of its proofs,   *)
(* makes verify_step_transition reject it against the step's true roots. *)
(***************************************************************************)
TamperedLogRejected ==
    LET post == RootOf(words) IN
    \A k \in DOMAIN log : \A t \in TamperFields(log[k]) :
        VerifyStepTransition(root_before, Tamper(log, k, t), post) # "ok"

=============================================================================
