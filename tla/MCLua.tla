------------------------------- MODULE MCLua --------------------------------
(***************************************************************************)
(* The programs of LuaPrograms, compiled and run.                          *)
(***************************************************************************)
EXTENDS LuaRun, LuaPrograms

MCCollation == <<"", "a", "ab", "b">>
MCNumerals == -9 .. 99
MCChunks == LET chunks == Compiled IN chunks
MCCut == 1 .. Len(Written)
MCMeanings == LET meanings == Meant IN meanings

MCNoCut == {}
MCConstantChunks == LET chunks == CompiledOf(ConstantConditions) IN chunks
MCConstantMeanings == LET meanings == MeantOf(ConstantConditions) IN meanings
=============================================================================
