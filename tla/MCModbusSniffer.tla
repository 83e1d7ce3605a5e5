-------------------------- MODULE MCModbusSniffer --------------------------
(* Two windows of equal size, so that the fallback may pick the wrong one; *)
(* an enabled group, a disabled one and a text register.                   *)
EXTENDS ModbusSniffer, TLC

Slaves == Permutations(Slave)

W(s, c) == [start |-> s, count |-> c]
R(a, w, g, t) == [addr |-> a, words |-> w, group |-> g, text |-> t]
MCWindow == {W(0, 2), W(4, 2)}
MCList   == {<<W(4, 1)>>}
MCKnownRegs   == {R(0, 2, "meter", FALSE), R(4, 1, "pv", FALSE), R(5, 1, "info", TRUE)}
MCKnownBlocks == <<W(0, 2), W(4, 2)>>
=============================================================================
