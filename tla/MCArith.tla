------------------------------ MODULE MCArith ------------------------------
(***************************************************************************)
(* The word arithmetic below the curve.  A behaviour is a chain of field   *)
(* operations with p = 31, the addition chain of fpexp1251, or the scalar *)
(* half of a signature, with an order of 509 and scalars of twelve bits.   *)
(***************************************************************************)
EXTENDS FieldChain, ExponentChain, ScalarChain

VARIABLE part

arithVars == <<fieldVars, expVars, scalarVars, part>>

\* The edges of a word and of p in one coordinate, anything in the other.
MCOperands == (0 .. 31) \X {0, 1, 15, 16, 30, 31}

MCell == <<136, 177>>

\* -(-5, -22) and -(27, 17), which lie in the lattice of a + 208 b = 0 modulo 509.
MCB == <<<<5, 22>>, <<101, 111>>>>

MCC == <<15, 66>>

MCLambda == <<1, 208>>

MCEdges == {0, 1, 508, 509, 1018, 4095}

MCTriples == (0 .. 4095) \X {0, 4095} \X {1, 1018}
             \cup MCEdges \X MCEdges \X MCEdges

MCInit ==
    \/ part = "field" /\ FieldInit /\ ExpInit
       /\ given = <<0, 0, 0>> /\ r = 0 /\ h = 0 /\ s = 0 /\ call = 1
    \/ part = "power" /\ acc = <<0, 0>> /\ exact = <<0, 0>> /\ ExpInit
       /\ given = <<0, 0, 0>> /\ r = 0 /\ h = 0 /\ s = 0 /\ call = 1
    \/ part = "scalar" /\ acc = <<0, 0>> /\ exact = <<0, 0>> /\ ExpInit /\ ScalarInit

MCNext ==
    \/ part = "field" /\ FieldNext /\ UNCHANGED <<expVars, scalarVars, part>>
    \/ part = "power" /\ ExpNext /\ UNCHANGED <<fieldVars, scalarVars, part>>
    \/ part = "scalar" /\ ScalarNext /\ UNCHANGED <<fieldVars, expVars, part>>

MCSpec == MCInit /\ [][MCNext]_arithVars
=============================================================================
