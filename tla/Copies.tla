------------------------------- MODULE Copies -------------------------------
(***************************************************************************)
(* Copies and fills over the registry of DeviceMemory.  A pointer is       *)
(* resolved and its bytes are moved in one section of g_lock, except that  *)
(* cuMemcpy2D takes the lock anew for each row: between two rows other     *)
(* threads allocate RM memory and free it.                                 *)
(*                                                                         *)
(* An allocation's device address is the address the process has it at.    *)
(* What bytes hold is left out: a copy is the set of bytes it touches.     *)
(* Pointers a program gives as host memory are its own affair; sizes are   *)
(* those whose products do not wrap.                                       *)
(***************************************************************************)
EXTENDS DeviceMemory

CONSTANTS
  Pitches,  \* distances of the rows of a 2D copy
  Widths,   \* bytes of a row
  Heights,  \* numbers of rows
  Element,  \* sizes of what a fill writes
  Uses      \* "memory": any call of DeviceMemory; "copy": copies beside RM allocations and frees

ASSUME ShapeAssumption == Pitches \subseteq Nat /\ Widths \subseteq Nat /\ Heights \subseteq Nat
ASSUME ElementAssumption == Element \subseteq Nat

VARIABLES
  use,      \* what the program does
  copy,     \* the 2D copy in progress
  touched   \* history: allocation and bytes of each resolved side of the last access

copyVars == <<use, copy, touched>>

(***************************************************************************)
(* One side of a copy: whether the library resolves it, the address of the *)
(* first row, and the distance of the next.                                *)
(***************************************************************************)
Side(type, at, pitch) == [type |-> type, at |-> at, pitch |-> pitch]
Sides == {Side("device", at, p) : at \in Addr, p \in Pitches} \cup {Side("host", 0, 0)}
RowAt(s, row) == s.at + row * s.pitch

NoCopy == [active |-> FALSE, to |-> Side("host", 0, 0), from |-> Side("host", 0, 0),
           width |-> 0, height |-> 0, row |-> 0]

-----------------------------------------------------------------------------
\* Pieces of memory: pairs of an address and a number of bytes.
Piece(s, row, n) == <<RowAt(s, row), n>>
Resolves(pieces) == \A p \in pieces : Found(p[1], p[2])

\* memmove or memset: what was resolved is what is touched.
Touch(pieces) == touched' = {[alloc |-> FindAlloc(p[1], p[2]), ptr |-> p[1], n |-> p[2]] : p \in pieces}

Resolved(sides, row, n) == {Piece(s, row, n) : s \in {x \in sides : x.type = "device"}}

\* cuMemcpyHtoD, cuMemcpyDtoH, cuMemcpyDtoD: all sides are resolved, or nothing moves.
Copy1D(to, from, n) ==
  /\ ~copy.active /\ Resolves(Resolved({to, from}, 0, n))
  /\ Touch(Resolved({to, from}, 0, n))
  /\ UNCHANGED copy

\* cuMemcpy: a pointer the registry does not know is taken for a host pointer.
CopyUva(to, from, n) ==
  /\ ~copy.active
  /\ Touch({p \in Resolved({to, from}, 0, n) : Found(p[1], p[2])})
  /\ UNCHANGED copy

\* cuMemsetD8, cuMemsetD16, cuMemsetD32 of n elements.
Fill(to, n, size) ==
  /\ ~copy.active /\ Found(to.at, n * size)
  /\ Touch({<<to.at, n * size>>})
  /\ UNCHANGED copy

\* cuMemcpy2D.
Copy2D(to, from, n, rows) ==
  /\ ~copy.active
  /\ copy' = [active |-> TRUE, to |-> to, from |-> from, width |-> n, height |-> rows, row |-> 0]
  /\ UNCHANGED touched

InRow == copy.active /\ copy.row < copy.height
RowPieces == Resolved({copy.to, copy.from}, copy.row, copy.width)

\* Mutant: the pointers are resolved for the first row, the others taken from there.
CopyRowResolvedOnce ==
  /\ InRow
  /\ copy.row = 0 => Resolves(RowPieces)
  /\ IF copy.row = 0 THEN Touch(RowPieces)
     ELSE touched' = {[a EXCEPT !.ptr = RowAt(copy.to, copy.row)] : a \in touched}
  /\ copy' = [copy EXCEPT !.row = @ + 1]
CopyRow ==
  /\ InRow /\ Resolves(RowPieces)
  /\ Touch(RowPieces)
  /\ copy' = [copy EXCEPT !.row = @ + 1]

\* A row that does not resolve ends the call; the rows before it stay copied.
CopyRowFails ==
  /\ InRow /\ ~Resolves(RowPieces)
  /\ copy' = NoCopy /\ touched' = {}

CopyReturns ==
  /\ copy.active /\ copy.row = copy.height
  /\ copy' = NoCopy /\ touched' = {}

CopyStep ==
  \/ CopyRow \/ CopyRowFails \/ CopyReturns
  \/ \E to \in Sides, n \in Widths :
       \/ \E from \in Sides :
            \/ Copy1D(to, from, n) \/ CopyUva(to, from, n)
            \/ \E rows \in Heights : Copy2D(to, from, n, rows)
       \/ \E size \in Element : Fill(to, n, size)

\* What other threads do meanwhile: allocations that RM serves, and frees.  Left out are
\* the heap fallback of cuMemAlloc, managed and pinned memory, and registrations, so
\* beside a copy every entry of the list is RM memory of the library.
AllocOrFree ==
  \/ \E t \in Thread, n \in Sizes : RmAlloc(t, n)
  \/ \E ptr \in Addr : MemFree(ptr)

CopiesInit == Init /\ use \in Uses /\ copy = NoCopy /\ touched = {}

CopiesNext ==
  \/ use = "memory" /\ Next /\ UNCHANGED copyVars
  \/ use = "copy" /\ AllocOrFree /\ touched' = {} /\ UNCHANGED <<use, copy>>
  \/ use = "copy" /\ CopyStep /\ UNCHANGED <<use, vars>>

CopiesSpec == CopiesInit /\ [][CopiesNext]_<<vars, copyVars>>

-----------------------------------------------------------------------------
(***************************************************************************)
(* Whatever RM memory is freed and allocated between the rows, every byte  *)
(* it touches through a device pointer lies, at that moment, in live       *)
(* memory of the allocation the pointer was resolved to.                   *)
(***************************************************************************)
TouchesLive ==
  \A x \in touched : x.n > 0 =>
    /\ x.alloc \in allocs
    /\ \E b \in live : Owns(x.alloc, b) /\ b.base <= x.ptr /\ x.ptr + x.n <= b.base + b.len
=============================================================================
