---------------------------- MODULE MC_LightNode ----------------------------
EXTENDS LightNode, TLC

CONSTANTS x, y, h1, h2

MC_TxId == {x, y}
MC_Handler == {h1, h2}
====
