--------------------------- MODULE ResolverRoutines ---------------------------
(***************************************************************************)
(* Constructors for the routine records that TokenLendingCatalogue and     *)
(* SystemCatalogue give to SlotResolver.                                   *)
(*                                                                         *)
(* A routine is a record:                                                  *)
(*   program, method  the names passed to template_instruction;            *)
(*   pathMethod       the method named in its error paths (format!("{}.x", *)
(*                    method_name));                                       *)
(*   steps            its reads, in code order: Get(i, local, label) is    *)
(*                    accounts.get(i).ok_or(AccountNotFound("M.label"))?,  *)
(*                    Opt(i, local) an optional accounts.get(i),           *)
(*                    SliceFrom(i, local) the slice &accounts[i..], and    *)
(*                    Utf8(local) a from_utf8 decode;                      *)
(*   payload          view key -> instruction field shown under that key;  *)
(*   alias, drop      keys showing a differently named local, and locals   *)
(*                    shown under no key of their own;                     *)
(*   hide             keys of the full view left out of the summary view; *)
(*   fields           the fields the variant carries (its match pattern).  *)
(***************************************************************************)
EXTENDS Naturals, Sequences

Get(i, v, l) == [op |-> "get",  slot |-> i, var |-> v, label |-> l]
Opt(i, v)    == [op |-> "opt",  slot |-> i, var |-> v, label |-> v]
SliceFrom(i, v) == [op |-> "tail", slot |-> i, var |-> v, label |-> v]
Utf8(v)      == [op |-> "utf8", slot |-> 0, var |-> v, label |-> v]

\* Required reads of slots 0, 1, 2, ... in order, each labelled by its local.
Gets(names) == [i \in 1..Len(names) |-> Get(i - 1, names[i], names[i])]

NoKeys == [k \in {} |-> ""]

Routine(program, m, steps, payload, hide, fields) ==
    [program |-> program, method |-> m, pathMethod |-> m,
     steps |-> steps, payload |-> payload, alias |-> NoKeys, drop |-> {},
     hide |-> hide, fields |-> fields]

\* The same key for a payload field and its local.
Pay(f) == [k \in {f} |-> f]

\* Payload keys shown under a name other than the field's.
Rename(keys, fieldOf(_)) == [k \in keys |-> fieldOf(k)]

-----------------------------------------------------------------------------
(* Values shown in a view.                                                 *)

Acct(i)    == [acct |-> i]        \* accounts[i]
Absent     == [absent |-> TRUE]   \* None of an optional accounts.get(i)
Slice(i)   == [tail |-> i]        \* &accounts[i..]
Payload(f) == [pay |-> f]         \* a payload field of the instruction

NoError  == [kind |-> "none", method |-> "", field |-> ""]
NoOutput == [program |-> "", method |-> "", full |-> <<>>, summary |-> <<>>]

-----------------------------------------------------------------------------
(* Routine structure: the locals a routine binds and the keys of its views. *)

LocalsOf(r) == {r.steps[i].var : i \in DOMAIN r.steps}
FullKeys(r) == (LocalsOf(r) \ r.drop) \cup DOMAIN r.payload \cup DOMAIN r.alias
SummaryKeys(r) == FullKeys(r) \ r.hide

\* The step of routine r that binds local x, and the local key k shows.
StepOf(r, x) == r.steps[CHOOSE i \in DOMAIN r.steps : r.steps[i].var = x]
LocalOf(r, k) == IF k \in DOMAIN r.alias THEN r.alias[k] ELSE k

=============================================================================
