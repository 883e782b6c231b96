------------------------ MODULE StateAccessInterface ------------------------
(***************************************************************************)
(* The i_state_access interface (src/src/emulator/i-state-access.h): its  *)
(* catalog of methods, the do_ method each one forwards to through the    *)
(* CRTP cast derived(), and what the implementations' do_ methods do to a *)
(* machine-state word (spec section 4.E).  The implementations are         *)
(* StateAccess (direct, component F) and LoggedStateAccess (component G). *)
(*                                                                         *)
(* A location is <<component, index>>: an integer register <<"x", r>>, a  *)
(* CSR <<c, 0>>, the iflags word <<"iflags", 0>> (whose fields H, I and   *)
(* PRV the iflags methods touch), a PMA entry <<"pma", i>> or a memory    *)
(* word <<"memory", paddr>>.  A method is <<op, field>>.                  *)
(***************************************************************************)
EXTENDS Integers, Sequences

CONSTANTS
    Regs,        \* register indices the interpreter passes
    PmaIndices,  \* PMA entry indices
    Paddrs,      \* word-aligned physical addresses of memory words
    Values,      \* the uint64 values words take (0 is the reset value)
    PRVs,        \* the uint8 privilege levels written to iflags.PRV
    None,        \* the argument of a method that takes no value
    MaxCalls     \* bound on the state accesses of one step

ASSUME StateAccessAssumption ==
    /\ Regs \subseteq 0..31
    /\ 0 \in Values /\ Values \subseteq Nat
    /\ PRVs \subseteq 0..255 /\ PRVs # {}
    /\ None \notin Values \cup PRVs
    /\ MaxCalls \in Nat

(* read_pc ... write_mcounteren: the machine-level CSRs, in header order.  *)
MachineCsrs ==
    <<"pc", "minstret", "mcycle", "mstatus", "mtvec", "mscratch", "mepc",
      "mcause", "mtval", "misa", "mie", "mip", "medeleg", "mideleg",
      "mcounteren">>

(* read_stvec ... write_ilrsc: the supervisor-level CSRs and ilrsc.        *)
SupervisorCsrs ==
    <<"stvec", "sscratch", "sepc", "scause", "stval", "satp", "scounteren",
      "ilrsc">>

(* read_mtimecmp ... write_tohost: the CLINT and HTIF registers.           *)
HtifCsrs == <<"mtimecmp", "fromhost", "tohost">>

CsrSeq == MachineCsrs \o SupervisorCsrs \o HtifCsrs

Csrs == {CsrSeq[k] : k \in DOMAIN CsrSeq}

(* The fields of the iflags word that set_iflags_H, read_iflags_H,         *)
(* reset_iflags_I, read_iflags_I, read_iflags_PRV and write_iflags_PRV     *)
(* touch.                                                                  *)
IflagsFields == {"iflags_H", "iflags_I", "iflags_PRV"}

(***************************************************************************)
(* The interface catalog: a method is <<op, field>>.  Every uint64          *)
(* component has read_ and write_; the iflags fields have the four methods *)
(* the header declares; read_pma and read_memory/write_memory close it.    *)
(***************************************************************************)
Catalog ==
    ({"read", "write"} \X ({"x", "iflags_PRV", "memory"} \cup Csrs))
    \cup {<<"set", "iflags_H">>, <<"read", "iflags_H">>,
          <<"reset", "iflags_I">>, <<"read", "iflags_I">>, <<"read", "pma">>}

(* Mutant: a copy-pasted body, write_mepc calling do_write_mcause.        *)
ForwardMisrouted(m) ==
    CASE m = <<"read", "memory">> -> <<"write", "memory">>
      [] m = <<"write", "mepc">>  -> <<"write", "mcause">>
      [] OTHER                    -> m

(***************************************************************************)
(* The do_ method each interface method calls.  read_memory (lines 289-291)*)
(* calls do_write_memory with its val argument; every other method calls   *)
(* the do_ method of its own name.                                         *)
(***************************************************************************)
Forward(m) ==
    IF m = <<"read", "memory">> THEN <<"write", "memory">> ELSE m

(* The methods whose signature returns a value (read_memory is void).      *)
Returns(m) == m[1] = "read" /\ m[2] # "memory"

(* The indices a method takes and the values it may be passed.             *)
IndicesOf(f) ==
    CASE f = "x"      -> Regs
      [] f = "pma"    -> PmaIndices
      [] f = "memory" -> Paddrs
      [] OTHER        -> {0}

(* Mutant: write_iflags_PRV declared with a uint64_t val.                  *)
ArgsOfPrvWide(m) ==
    CASE m[1] = "write"          -> Values
      [] m = <<"read", "memory">> -> Values
      [] OTHER                   -> {None}

ArgsOf(m) ==
    CASE m = <<"write", "iflags_PRV">>                      -> PRVs
      [] m[1] = "write" /\ m[2] # "iflags_PRV"              -> Values
      [] m = <<"read", "memory">>                           -> Values
      [] OTHER                                              -> {None}

(* The location a field of the interface lives in.                         *)
LocOf(f, i) == IF f \in IflagsFields THEN <<"iflags", 0>> ELSE <<f, i>>

Loc ==
    {<<"x", r>> : r \in Regs} \cup {<<c, 0>> : c \in Csrs}
    \cup {<<"iflags", 0>>} \cup {<<"pma", i>> : i \in PmaIndices}
    \cup {<<"memory", a>> : a \in Paddrs}

IflagsWords == [H : BOOLEAN, I : BOOLEAN, PRV : PRVs]

(***************************************************************************)
(* What the direct implementation's do_ methods do to a word: a read takes *)
(* field f of word w, a write replaces it.  set_iflags_H sets H and        *)
(* reset_iflags_I clears I.                                                *)
(***************************************************************************)
FieldValue(w, f) ==
    CASE f = "iflags_H"   -> w.H
      [] f = "iflags_I"   -> w.I
      [] f = "iflags_PRV" -> w.PRV
      [] OTHER            -> w

Update(w, d, v) ==
    CASE d = <<"set", "iflags_H">>   -> [w EXCEPT !.H = TRUE]
      [] d = <<"reset", "iflags_I">> -> [w EXCEPT !.I = FALSE]
      [] d[2] = "iflags_PRV"         -> [w EXCEPT !.PRV = v]
      [] OTHER                       -> v

=============================================================================
