-------------------------------- MODULE Gates --------------------------------
(***************************************************************************)
(* The clauses of the gates, vp/compsyn_pred/elabmod.ml: one operator per  *)
(* encode_ method, on the variables of the output r and of the inputs a    *)
(* and b.  A vector is a sequence of variables, most significant first.    *)
(***************************************************************************)
EXTENDS Clauses, Sequences

truepred == 1
falsepred == 2

\* encode_ASSIGN and encode_EQU
encode_EQU(a, b) == {{-a, b}, {a, -b}}

\* encode_NEQ and encode_NEG_ASSIGN
encode_NEQ(a, b) == {{a, b}, {-a, -b}}

encode_EQU_res(r, a, b) == {{a, b, r}, {-a, -b, r}, {a, -b, -r}, {-a, b, -r}}

\* encode_INE_res and encode_XOR2_res
encode_INE_res(r, a, b) == {{a, b, -r}, {-a, -b, -r}, {a, -b, r}, {-a, b, r}}

encode_AND2_res(r, a, b) == {{a, -r}, {b, -r}, {-a, -b, r}}

encode_OR2_res(r, a, b) == {{-a, r}, {-b, r}, {a, b, -r}}

encode_SEL_res(r, a, b, pred) == {{-pred, a, -r}, {-pred, -a, r}, {pred, b, -r}, {pred, -b, r}}

Literals(bits) == {bits[i] : i \in DOMAIN bits}
Negated(bits) == {-bits[i] : i \in DOMAIN bits}

encode_Red_AND(r, bits) == {Negated(bits) \cup {r}} \cup {{x, -r} : x \in Literals(bits)}

encode_Red_NAND(r, bits) == {Negated(bits) \cup {-r}} \cup {{x, r} : x \in Literals(bits)}

encode_Red_OR(r, bits) == {Literals(bits) \cup {-r}} \cup {{x, r} : x \in Negated(bits)}

encode_Red_NOR(r, bits) == {Literals(bits) \cup {r}} \cup {{x, -r} : x \in Negated(bits)}

\* The clause of the row of a truth table in which x, y, z are a, b, c.
Row(a, b, c, x, y, z, r) ==
  {IF x = 1 THEN -a ELSE a, IF y = 1 THEN -b ELSE b, IF z = 1 THEN -c ELSE c, r}

\* cry000 .. cry111 and res000 .. res111: the rows with a carry, with a sum of 1.
encode_ADD_1bit(a, b, carry, cryidx, residx) ==
  UNION {{Row(a, b, carry, x, y, z, IF x + y + z >= 2 THEN cryidx ELSE -cryidx),
          Row(a, b, carry, x, y, z, IF (x + y + z) % 2 = 1 THEN residx ELSE -residx)} :
            x \in {0, 1}, y \in {0, 1}, z \in {0, 1}}

\* What comes after bit i of a chain of n that starts at index: the next bit, 0 at the end.
After(index, i, n) == IF i = n THEN falsepred ELSE index + i

\* The n results are at residx, the n carries behind them; no carry at the right end.
encode_ADD(residx, a, b) ==
  LET n == Len(a)
      cryidx == residx + n
  IN UNION {encode_ADD_1bit(a[i], b[i], After(cryidx, i, n), cryidx + i - 1, residx + i - 1) :
              i \in DOMAIN a}

\* One bit of T_lt: r is a < b, last what the bits to the right say.
LessBit(r, a, b, last) ==
  {{a, b, last, -r}, {a, b, -last, r}, {a, -b, r}, {-a, b, -r}, {-a, -b, last, -r}, {-a, -b, -last, r}}

\* One bit of T_gt.
GreaterBit(r, a, b, last) ==
  {{a, b, last, -r}, {a, b, -last, r}, {a, -b, -r}, {-a, b, r}, {-a, -b, last, -r}, {-a, -b, -last, r}}

\* proc_lt_formular: the variable of the result is index.
Less(index, a, b) ==
  UNION {LessBit(index + i - 1, a[i], b[i], After(index, i, Len(a))) : i \in DOMAIN a}

\* proc_gt_formular
Greater(index, a, b) ==
  UNION {GreaterBit(index + i - 1, a[i], b[i], After(index, i, Len(a))) : i \in DOMAIN a}

\* The variables index .. index+n-1, as alloc_index hands them out.
Fresh(index, n) == [i \in 1 .. n |-> index + i - 1]

encode_EQUV(a, b) == UNION {encode_EQU(a[i], b[i]) : i \in DOMAIN a}

\* The results of the bits are at index, the target behind them.
encode_EQUV_res(index, a, b) ==
  encode_Red_AND(index + Len(a), Fresh(index, Len(a)))
    \cup UNION {encode_EQU_res(index + i - 1, a[i], b[i]) : i \in DOMAIN a}

encode_INEV_res(index, a, b) ==
  encode_Red_OR(index + Len(a), Fresh(index, Len(a)))
    \cup UNION {encode_INE_res(index + i - 1, a[i], b[i]) : i \in DOMAIN a}

encode_INEV(index, a, b) == encode_INEV_res(index, a, b) \cup {{index + Len(a)}}

addGuard(clauses, pred) == IF pred = truepred THEN clauses ELSE {c \cup {-pred} : c \in clauses}
=============================================================================
