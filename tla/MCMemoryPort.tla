---------------------------- MODULE MCMemoryPort ----------------------------
EXTENDS MemoryPort

\* Transfers that end in the middle of a transaction, and at its end.
MCSizes == {1, 5, 8, 12, 15}
FragmentSizes == {0, 1, 4, 7}
NoSizes == {}
ProgramLoads == {"load"}
ShaderLoads == {"loadShader"}
=============================================================================
