---------------------------- MODULE CrashDumps -----------------------------
(***************************************************************************)
(* What minidump_reader.rs, triage.rs and bugcheck.rs make of one dump     *)
(* file.  A dump is a record:                                              *)
(*   kind       : "small" (Minidump\*.dmp), "full" (MEMORY.DMP: any layout *)
(*                but the x64 small dump's), "user" (an application's)     *)
(*   extent     : how much of it was written: "nothing" of use, the        *)
(*                "header", or the "whole"                                 *)
(*   code       : the stop code                                            *)
(*   parameters : its four parameters                                      *)
(*   images     : the saved module table, records [name, base, size]       *)
(*   guilty     : the module that was executing; no file says so           *)
(*   boot       : the boot it ended, to tell files apart                   *)
(* The kernel dump of a 32-bit Windows differs in its addresses, which are *)
(* all below KernelBase, and in that no table of its is accepted.          *)
(* Addresses are unbounded integers: base.checked_add never fails here.    *)
(***************************************************************************)
EXTENDS Integers

CONSTANTS
  KernelBase,   \* 0xFFFF_8000_0000_0000 in the code
  None          \* no module

ASSUME KernelAssumption == KernelBase \in Int /\ KernelBase > 0

NoAddress == 0

(* Which parameter holds a code address; 0 for a code that documents none. *)
CulpritParameter(code) ==
  CASE code \in {"0A", "D1"} -> 4
    [] code \in {"1E", "3B", "7E", "8E", "1000007E", "1000008E"} -> 2
    [] code = "50" -> 3
    [] OTHER -> 0

IsKernelAddress(a) == a >= KernelBase

CulpritAddress(code, parameters) ==
  IF CulpritParameter(code) # 0 /\ IsKernelAddress(parameters[CulpritParameter(code)])
  THEN parameters[CulpritParameter(code)]
  ELSE NoAddress

Contains(m, a) == m.size # 0 /\ m.base <= a /\ a < m.base + m.size

(* The table is taken whole or not at all: it is there in a supported      *)
(* layout, every image is a kernel image of a known size, none overlap.    *)
TableAccepted(dump) ==
  /\ dump.kind = "small"
  /\ dump.extent = "whole"
  /\ dump.images # {}
  /\ \A m \in dump.images : IsKernelAddress(m.base) /\ m.size # 0
  /\ \A m, n \in dump.images : m # n => m.base + m.size <= n.base \/ n.base + n.size <= m.base

(* Exactly one image contains the address, or the crash has no culprit.    *)
Attribute(a, images) ==
  IF \E m \in images : Contains(m, a) /\ \A n \in images : Contains(n, a) => n = m
  THEN (CHOOSE m \in images : Contains(m, a)).name
  ELSE None

(* The record of a kernel dump, and whether to tell that it is degraded.   *)
KernelRecord(dump) ==
  LET a == CulpritAddress(dump.code, dump.parameters)
  IN  [dump |-> dump,
       module |-> IF a # NoAddress /\ TableAccepted(dump) THEN Attribute(a, dump.images) ELSE None,
       degraded |-> a # NoAddress /\ ~TableAccepted(dump)]

(* A user-mode dump carries its own module list, and as its first          *)
(* parameter what the minidump crate calls the crash address: the one      *)
(* whose access failed for an access violation or an in-page error, that   *)
(* of the instruction for every other exception.                           *)
UserRecord(dump) ==
  [dump |-> dump, module |-> Attribute(dump.parameters[1], dump.images), degraded |-> FALSE]

(* What is too short for a header is tried as a user-mode container.       *)
Decodable(dump) == dump.extent = "whole" \/ (dump.extent = "header" /\ dump.kind # "user")

Record(dump) == IF dump.kind = "user" THEN UserRecord(dump) ELSE KernelRecord(dump)
=============================================================================
