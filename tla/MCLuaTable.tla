----------------------------- MODULE MCLuaTable -----------------------------
(***************************************************************************)
(* A small instance of LuaTable.  HashNum is the sum, modulo 2^32, of the  *)
(* two words of the double of a number.                                    *)
(***************************************************************************)
EXTENDS LuaTable, TLC

CONSTANTS nil, s1, s2, s3, v1, v2

MCInts == 1 .. 5
MCStrings == {s1, s2, s3}
MCValues == {v1, v2}
MCOrders == {{<<v1, v2>>}, {<<v2, v1>>}}
MCLists == {<<v1, v2, v1>>, <<nil, v1>>, <<v2, v1, v2, v2, v1>>, <<v1, v1, v2, nil, v2>>}

\* Programs on records, on both parts, on sparse integers and on lists.
Program(keys, values, nhash, steps) ==
    [keys |-> keys, values |-> values, narray |-> 0, nhash |-> nhash, lists |-> {},
     places |-> {}, orders |-> {}, steps |-> steps]
MCPrograms == {
    Program({s1, s2, s3}, {v1}, 0, 7),
    Program({s1, s2, s3, 3}, {v1}, 4, 6),
    Program({1, 2, s1, s2}, {v1}, 0, 6),
    [Program({1, 2, 4, 5}, {v1}, 4, 6) EXCEPT !.places = {1, 3}],
    [Program({3, s1}, {v2}, 0, 4) EXCEPT !.places = {1, 4}, !.lists = MCLists, !.orders = MCOrders]}
MCHashNum(k) ==
    CASE k = 1 -> 1072693248 [] k = 2 -> 1073741824 [] k = 3 -> 1074266112
      [] k = 4 -> 1074790400 [] k = 5 -> 1075052544 [] k = 6 -> 1075314688
      [] k = 7 -> 1075576832 [] k = 8 -> 1075838976
MCHashStr(s) == CASE s = s1 -> 5 [] s = s2 -> 1 [] s = s3 -> 2
=============================================================================
