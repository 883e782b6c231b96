-------------------------- MODULE StepLogVerifier --------------------------
(***************************************************************************)
(* The step-log verifier (component H, spec section 4.H).  Its code is not *)
(* under src/ (it is the C API's cm_verify_ family), so it follows the    *)
(* spec.  From the pre-step root it checks every access record of the log *)
(* in order against the current root, re-folds the written value of each  *)
(* write through the record's siblings to get the next root, and at the   *)
(* end compares the root it reached with the claimed post-step root.       *)
(*                                                                         *)
(* An access record is [kind, address, read, written, proof]: the kind    *)
(* "read" or "write", the byte address of the word, the word before the   *)
(* access, the word after it (equal to read for a read), and the proof of *)
(* the word at log2_word_size granularity against the root before it.    *)
(***************************************************************************)
EXTENDS MerkleProof, Sequences

CONSTANT LeafHash(_)   \* the hasher's leaf hash of one word

(* Mutant: the check of the logged word against the proof's target left out. *)
RecordErrorNoValueCheck(rec, root) ==
    LET p == rec.proof IN
    IF \/ p.log2_root_size # LOG2_ROOT_SIZE
       \/ p.log2_target_size # LOG2_WORD_SIZE
       \/ p.target_address # rec.address   THEN "schema_mismatch"
    ELSE IF p.root_hash # root              THEN "root_mismatch"
    ELSE IF ~Verify(p)                      THEN "invalid_proof"
    ELSE "none"

(***************************************************************************)
(* The check of one record against the current root: the first failure in *)
(* the order of spec 4.H, after the schema checks of spec section 6.      *)
(***************************************************************************)
RecordError(rec, root) ==
    LET p == rec.proof IN
    IF \/ p.log2_root_size # LOG2_ROOT_SIZE
       \/ p.log2_target_size # LOG2_WORD_SIZE
       \/ p.target_address # rec.address   THEN "schema_mismatch"
    ELSE IF p.root_hash # root              THEN "root_mismatch"
    ELSE IF ~Verify(p)                      THEN "invalid_proof"
    ELSE IF p.target_hash # LeafHash(rec.read) THEN "value_mismatch"
    ELSE "none"

(* The root after a checked record: a write re-folds its written word.    *)
RootAfter(rec, root) ==
    IF rec.kind = "write"
    THEN ProofRoot([rec.proof EXCEPT !.target_hash = LeafHash(rec.written)])
    ELSE root

(***************************************************************************)
(* replay[k]: the root after the first k records and the first error, if  *)
(* any; records after an error are not looked at.                          *)
(***************************************************************************)
Replay(pre_root, log) ==
    LET replay[k \in 0..Len(log)] ==
            IF k = 0 THEN [root |-> pre_root, error |-> "none"]
            ELSE LET prev == replay[k - 1] IN
                 IF prev.error # "none" THEN prev
                 ELSE IF RecordError(log[k], prev.root) # "none"
                 THEN [prev EXCEPT !.error = RecordError(log[k], prev.root)]
                 ELSE [root |-> RootAfter(log[k], prev.root), error |-> "none"]
    IN  replay[Len(log)]

(* verify_step_transition(pre_root, log, post_root)                        *)
VerifyStepTransition(pre_root, log, post_root) ==
    LET r == Replay(pre_root, log) IN
    IF r.error # "none" THEN r.error
    ELSE IF r.root # post_root THEN "root_mismatch"
    ELSE "ok"

=============================================================================
