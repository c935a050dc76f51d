------------------------------ MODULE Transforms ------------------------------
(***************************************************************************)
(* vec3f.h, quatf.h, mat4f.c and transform.c: an object's transform, which *)
(* the game moves, and its matrix, which it draws (frogger_game.c:528),    *)
(* taken through the same operations.  Numbers are exact, so that only     *)
(* the formulas are at stake: vectors and scales are integers, and         *)
(* rotations those whose quaternions are made of halves; a quaternion is   *)
(* written as its double.                                                  *)
(***************************************************************************)
EXTENDS Integers

CONSTANT Box             \* bound: no coordinate is larger

ASSUME BoxAssumption == Box \in Nat

VARIABLES transform,     \* the object's
          matrix         \* and its matrix, by mat4f.c alone

-----------------------------------------------------------------------------
(* vec3f.h *)

Axes  == 1 .. 3
Zero  == [i \in Axes |-> 0]
One   == [i \in Axes |-> 1]
Boxed == [Axes -> -Box .. Box]
AxisAfter(i) == (i % 3) + 1                       \* the axis after i

Add(a, b)   == [i \in Axes |-> a[i] + b[i]]
Mul(a, b)   == [i \in Axes |-> a[i] * b[i]]
Scaled(v, f)== [i \in Axes |-> v[i] * f]
Halved(v)   == [i \in Axes |-> v[i] \div 2]
Dot(a, b)   == a[1] * b[1] + a[2] * b[2] + a[3] * b[3]
Cross(a, b) == [i \in Axes |-> a[AxisAfter(i)] * b[AxisAfter(AxisAfter(i))] - a[AxisAfter(AxisAfter(i))] * b[AxisAfter(i)]]

-----------------------------------------------------------------------------
(* quatf.h; v is v3 and s is w. *)

Quaternion(v, s) == [v |-> v, s |-> s]
Identity         == Quaternion(Zero, 2)

(* Of length 1: each a rotation, and its opposite the same one.            *)
Rotations == {q \in [v : [Axes -> -2 .. 2], s : -2 .. 2] :
                /\ Dot(q.v, q.v) + q.s * q.s = 4
                /\ q.s % 2 = q.v[1] % 2 /\ q.v[2] % 2 = q.v[1] % 2 /\ q.v[3] % 2 = q.v[1] % 2}

quatf_mul(a, b) ==
  Quaternion(Halved(Add(Cross(a.v, b.v), Add(Scaled(b.v, a.s), Scaled(a.v, b.s)))),
             (a.s * b.s - Dot(a.v, b.v)) \div 2)

quatf_conjugate(q) == Quaternion(Scaled(q.v, -1), q.s)

quatf_rotate_vec(q, v) ==
  LET t == Cross(q.v, v)
  IN  Add(v, Halved(Add(Scaled(t, q.s), Cross(q.v, t))))

-----------------------------------------------------------------------------
(* mat4f.c; a vector is a row, to the left of the matrix. *)

Entries == 1 .. 4

mat4f_mul(a, b) ==
  [i \in Entries |-> [j \in Entries |->
     a[i][1] * b[1][j] + a[i][2] * b[2][j] + a[i][3] * b[3][j] + a[i][4] * b[4][j]]]

mat4f_transform(m, v) ==
  [j \in Axes |-> v[1] * m[1][j] + v[2] * m[2][j] + v[3] * m[3][j] + m[4][j]]

(* Rows of a rotation, and a matrix of those rows and a translation.       *)
RotationRow(q, i) ==
  [j \in Axes |->
     IF i = j THEN (2 - q.v[AxisAfter(i)] * q.v[AxisAfter(i)] - q.v[AxisAfter(AxisAfter(i))] * q.v[AxisAfter(AxisAfter(i))]) \div 2
     ELSE (q.v[i] * q.v[j] + (IF j = AxisAfter(i) THEN 1 ELSE -1) * q.v[6 - i - j] * q.s) \div 2]

Affine(rows, t) ==
  [i \in Entries |-> [j \in Entries |-> IF j = 4 THEN (IF i = 4 THEN 1 ELSE 0)
                                        ELSE IF i = 4 THEN t[j] ELSE rows[i][j]]]

mat4f_make_identity       == Affine([i \in Axes |-> [j \in Axes |-> IF i = j THEN 1 ELSE 0]], Zero)
mat4f_make_translation(t) == [mat4f_make_identity EXCEPT ![4] = [j \in Entries |-> IF j = 4 THEN 1 ELSE t[j]]]
mat4f_make_scaling(s)     == Affine([i \in Axes |-> [j \in Axes |-> IF i = j THEN s[i] ELSE 0]], Zero)
mat4f_make_rotation(q)    == Affine([i \in Axes |-> RotationRow(q, i)], Zero)

(* By the minors s of the upper two rows and c of the lower two, of the    *)
(* columns i and j; their products are the cofactors.  The determinant is  *)
(* 1 or -1 here.                                                           *)
Minor(m, r, i, j) == m[r][i] * m[r + 1][j] - m[r + 1][i] * m[r][j]

Cofactor(m, i, j) ==
  LET other == IF i <= 2 THEN 3 - i ELSE 7 - i                       \* the row paired with i
      pair  == IF i <= 2 THEN 3 ELSE 1
      cols  == [n \in 1 .. 3 |-> IF n < j THEN n ELSE n + 1]         \* all columns but j
      sign  == IF (i + j) % 2 = 0 THEN 1 ELSE -1
  IN  sign * (m[other][cols[1]] * Minor(m, pair, cols[2], cols[3])
                - m[other][cols[2]] * Minor(m, pair, cols[1], cols[3])
                + m[other][cols[3]] * Minor(m, pair, cols[1], cols[2]))

Determinant(m) ==
  Minor(m, 1, 1, 2) * Minor(m, 3, 3, 4) - Minor(m, 1, 1, 3) * Minor(m, 3, 2, 4)
    + Minor(m, 1, 1, 4) * Minor(m, 3, 2, 3) + Minor(m, 1, 2, 3) * Minor(m, 3, 1, 4)
    - Minor(m, 1, 2, 4) * Minor(m, 3, 1, 3) + Minor(m, 1, 3, 4) * Minor(m, 3, 1, 2)

mat4f_invert(m) == [i \in Entries |-> [j \in Entries |-> Cofactor(m, j, i) * Determinant(m)]]

-----------------------------------------------------------------------------
(* transform.c *)

Transform(t, s, q) == [translation |-> t, scale |-> s, rotation |-> q]

transform_identity == Transform(Zero, One, Identity)

transform_to_matrix(x) ==
  Affine([i \in Axes |-> Scaled(RotationRow(x.rotation, i), x.scale[i])], x.translation)

(* FAULT: the quaternions are multiplied the other way round. *)
transform_multiply_swapped(x, t) ==
  Transform(Add(quatf_rotate_vec(t.rotation, Mul(x.translation, t.scale)), t.translation),
            Mul(x.scale, t.scale),
            quatf_mul(x.rotation, t.rotation))

transform_multiply(x, t) ==
  Transform(Add(quatf_rotate_vec(t.rotation, Mul(x.translation, t.scale)), t.translation),
            Mul(x.scale, t.scale),
            quatf_mul(t.rotation, x.rotation))

(* A scale is its own inverse here. *)
transform_invert(x) ==
  LET back == quatf_conjugate(x.rotation)
  IN  Transform(Mul(x.scale, quatf_rotate_vec(back, Scaled(x.translation, -1))), x.scale, back)

transform_transform_vec3(x, v) ==
  Add(quatf_rotate_vec(x.rotation, Mul(v, x.scale)), x.translation)

-----------------------------------------------------------------------------
SpaceInit == transform = transform_identity /\ matrix = mat4f_make_identity

(* Along one path a transform is moved, and along the other its matrix.    *)
Move(by, m) == /\ transform' = transform_multiply(transform, by)
               /\ transform'.translation \in Boxed
               /\ matrix' = mat4f_mul(matrix, m)

Translate(t) == Move(Transform(t, One, Identity), mat4f_make_translation(t))
Scale(s)     == Move(Transform(Zero, s, Identity), mat4f_make_scaling(s))
Rotate(q)    == Move(Transform(Zero, One, q), mat4f_make_rotation(q))

Invert == /\ transform' = transform_invert(transform)
          /\ matrix' = mat4f_invert(matrix)

(* transform.c has no shear, so scales are the same along every axis.      *)
SpaceNext == \/ \E t \in Boxed : Translate(t)
             \/ \E s \in {Scaled(One, f) : f \in {-1, 1}} : Scale(s)
             \/ \E q \in Rotations : Rotate(q)
             \/ Invert

(* After any of them, the matrix is the one made of the transform, and     *)
(* takes every point where the transform takes it, also when the object    *)
(* itself is not scaled evenly.  (transform.c:10-51, 53-61, 63-70)         *)
MatrixFollowsTransform ==
  /\ matrix = transform_to_matrix(transform)
  /\ \A s \in [Axes -> 1 .. 2], v \in Boxed :
       LET x == [transform EXCEPT !.scale = Mul(@, s)]
       IN  mat4f_transform(transform_to_matrix(x), v) = transform_transform_vec3(x, v)
=============================================================================
