------------------------------- MODULE Encoder -------------------------------
(***************************************************************************)
(* The two-copy unrolling that every query of complementary synthesis is   *)
(* built from: construct_nonloop, construct_loop and double_loop of        *)
(* vp/compsyn_pred/elabmod.ml.                                             *)
(*                                                                         *)
(* An encoder e is a record                                                *)
(*   states  its state valuations: a tuple of registers, each a tuple of   *)
(*           bits (one entry of name_index_lst per register)               *)
(*   inputs  its input valuations: a tuple of bits                         *)
(*   nxt     [states \X inputs -> states], the next-state functions        *)
(*   out     [states \X inputs -> outputs], the selected output bits       *)
(*   ok      [states \X inputs -> BOOLEAN], the assertion_shengyushen wire *)
(*                                                                         *)
(* The CNF of a query lists, for two copies of the encoder, the frames     *)
(* 0..p+l+r.  A frame here is what one assignment says of both copies at   *)
(* one instant.  No frame is an initial state: the code leaves the state   *)
(* of frame 0 free.                                                        *)
(***************************************************************************)
EXTENDS Integers

Frames(e) ==
  {f \in [s1 : e.states, i1 : e.inputs, s2 : e.states, i2 : e.inputs] :
      e.ok[<<f.s1, f.i1>>] /\ e.ok[<<f.s2, f.i2>>]}

\* connect_dffpair: the next state of frame f is the current state of frame g.
Linked(e, f, g) ==
  /\ g.s1 = e.nxt[<<f.s1, f.i1>>]
  /\ g.s2 = e.nxt[<<f.s2, f.i2>>]

SameOutput(e, f) == e.out[<<f.s1, f.i1>>] = e.out[<<f.s2, f.i2>>]

\* Mutant: the last frame is not connected to the one before.
WindowsUnlinkedEnd(e, first, last) ==
  {x \in [0 .. last -> Frames(e)] :
      /\ \A k \in 0 .. (last - 2) : Linked(e, x[k], x[k + 1])
      /\ \A k \in first .. last : SameOutput(e, x[k])}

(***************************************************************************)
(* The assignments of an unrolling of frames 0..last: the frames of each   *)
(* copy are chained, the assertion wire holds in all of them, and both     *)
(* copies put out the same in the frames first..last.                      *)
(***************************************************************************)
Windows(e, first, last) ==
  {x \in [0 .. last -> Frames(e)] :
      /\ \A k \in 0 .. (last - 1) : Linked(e, x[k], x[k + 1])
      /\ \A k \in first .. last : SameOutput(e, x[k])}

\* What the two copies may take in at frame c.
Current(x, c) == <<x[c].i1, x[c].i2>>

Ambiguity(e, c, first, last) == {Current(x, c) : x \in Windows(e, first, last)}

\* construct_nonloop p l r [] []: the current frame is p+l.
Nonloop(e, p, l, r) == Ambiguity(e, p + l, p, p + l + r)

(***************************************************************************)
(* double_loop compares states through dff_curlst, which holds the index   *)
(* of the first bit of each register only.                                 *)
(***************************************************************************)
BaseBits(s) == [n \in DOMAIN s |-> s[n][1]]

Key(f) == <<BaseBits(f.s1), BaseBits(f.s2)>>

\* double_loop: two of the frames first..last agree, in both copies at once.
DoubleLoop(x, first, last) ==
  \E i \in first .. (last - 1) : \E j \in (i + 1) .. last : Key(x[i]) = Key(x[j])

\* Mutant: no loop is asked for after the current frame.
LoopWindowsOpenEnd(e, p, l, r) ==
  {x \in Windows(e, p, p + l + r) : DoubleLoop(x, 0, p) /\ DoubleLoop(x, p, p + l)}

LoopWindows(e, p, l, r) ==
  {x \in Windows(e, p, p + l + r) :
      /\ DoubleLoop(x, 0, p)
      /\ DoubleLoop(x, p, p + l)
      /\ DoubleLoop(x, p + l + 1, p + l + r)}

Loop(e, p, l, r) == {Current(x, p + l) : x \in LoopWindows(e, p, l, r)}

(***************************************************************************)
(* The bits that findUniqDecidedList compares: the outputs, of which it    *)
(* only ever takes all, the first bit of register n, bit n of the input.   *)
(***************************************************************************)
OutBits == <<"out", 0>>
DffBit(n) == <<"dff", n>>
InBit(n) == <<"in", n>>

Agrees(e, f, b) ==
  CASE b[1] = "out" -> SameOutput(e, f)
    [] b[1] = "dff" -> BaseBits(f.s1)[b[2]] = BaseBits(f.s2)[b[2]]
    [] b[1] = "in"  -> f.i1[b[2]] = f.i2[b[2]]

(***************************************************************************)
(* findUniqDecidedList: the frames 0..p+r are chained, no output is        *)
(* compared but as a bit of U, and the input of one copy or the other at   *)
(* frame p satisfies the assertions, that is, it is in valid.  procDiff of *)
(* bit d is unsatisfiable.                                                 *)
(***************************************************************************)
Decided(e, valid, p, r, U, posU, d, posDiff) ==
  \A x \in Windows(e, p + r + 1, p + r) :
    (x[p].i1 \in valid \/ x[p].i2 \in valid) /\ (\A u \in U : Agrees(e, x[posU], u))
      => Agrees(e, x[posDiff], d)

(***************************************************************************)
(* genDecoderFunction: the same question of two copies of the clauses of   *)
(* construct_nonloop_1copy, which asserts that the input is in valid.      *)
(***************************************************************************)
Determined(e, valid, p, r, U, posU, d, posDiff) ==
  \A x \in Windows(e, p + r + 1, p + r) :
    (x[p].i1 \in valid /\ x[p].i2 \in valid) /\ (\A u \in U : Agrees(e, x[posU], u))
      => Agrees(e, x[posDiff], d)
=============================================================================
