----------------------------- MODULE MCConsole -----------------------------
(***************************************************************************)
(* Users, each with the keys they know, and a command line.                *)
(***************************************************************************)
EXTENDS Console

Master == {"m"}
Both == {"m", "o"}
Err(adr, xor, type) == [adr |-> adr, xor |-> xor, mask |-> IF type = 1 THEN {7} ELSE xor, type |-> type]
Errors == {Err(4, {0, 1}, 0), Err(3, {0}, 0), Err(5, {1, 2, 3}, 1)}
User(cmdline, cpus, menus, keys, errs, last) ==
  [opts |-> cmdline, cpus |-> cpus, menus |-> menus, keys |-> keys, errors |-> errs,
   last |-> last, before |-> 0]
On(text) == [opt |-> "tstlist", text |-> text]
Console(sep, baud, end, bits) ==
  [opt |-> "console", tty |-> 0, sep |-> sep, baud |-> baud, end |-> end, bits |-> bits]
Mask(text) == [opt |-> "cpumask", text |-> text]

MCCpuSel == <<-1, 32, 1>>
MCMap == <<[start |-> 0, end |-> 1], [start |-> 2, end |-> 14]>>

\* The tests: numbers that are in the table, lists that end with one.
SelectsTests == User(<<On(<<"0", ",", "2">>)>>, Master, {"1"}, {"c", "1", "2", "3", "SP", "CR"}, {}, -1)
TypesLists == User(<<On(<<"1", "2">>), Mask(<<"7">>)>>, Master, {"1"}, {"c", "1", "4", "2", "BS", "CR"}, {}, -1)
ListWithComma == User(<<Console(NUL, 0, NUL, NUL), On(<<"1">>)>>, Master, {"1"}, {"c", "1", "4", ",", "2", "CR", "0"}, {}, -1)
\* The address range, in pages and in other units, changed again and again.
SetsLimits == User(<<>>, Master, {"2"}, {"c", "2", "1", "3", "p", "CR", "SP"}, {}, -1)
TypesUnits == User(<<Console(",", 9600, "n", NUL)>>, Master, {"2"}, {"c", "2", "1", "8", "x", "k", "m", "CR"}, {}, -1)
\* Error modes with errors, a look at other data, and the CPU modes.
ReadsErrors == User(<<>>, Master, {"3"}, {"c", "3", "1", "2", "0"}, Errors, -1)
ReadsPatterns == User(<<>>, Master, {"3"}, {"c", "3", "4", "SP"}, {Err(2, {0}, 0), Err(5, {1}, 1)}, 1)
Looks == User(<<>>, Master, {}, {"c", "6", "7", "0", "SP", "ESC"}, {Err(2, {0}, 0)}, 0)
LooksBySerial == User(<<Console(",", 115200, "o", NUL)>>, Master, {}, {"c", "6", "7", "0"}, {Err(2, {0}, 0)}, 0)
RunsAll == User(<<>>, Master, {"1"}, {"c", "1", "0"}, {}, 2)
ChangesCpus == User(<<>>, Master, {"4"}, {"c", "4", "1", "2", "3", "0"}, {}, 2)
\* Two CPUs with errors and the scroll lock, without the menu.
LocksScroll == User(<<>>, Both, {}, {"SP", "CR", "a"}, {Err(2, {0}, 0), Err(3, {0}, 0)}, -1)

Users == {SelectsTests, TypesLists, ListWithComma, SetsLimits, TypesUnits, ReadsErrors, ReadsPatterns,
          Looks, LooksBySerial, RunsAll, ChangesCpus, LocksScroll}

\* What goes wrong.
SelectsFade == {User(<<>>, Master, {"1"}, {"c", "1", "3", "0", "CR"}, {}, 2)}
MCDefaults == {User(<<>>, Master, {"1"}, {"c", "1", "0"}, {}, 2)}
BadNumbers == {User(<<>>, Master, {"1"}, {"c", "1", "3", "4", "0", "CR"}, {}, 3)}
BadList == {User(<<>>, Master, {"1"}, {"c", "1", "4", ",", "CR"}, {}, 2)}
LockedMenu == {User(<<>>, Master, {"3"}, {"c", "3", "2", "SP", "CR"}, {Err(2, {0}, 0), Err(3, {0}, 0)}, 2)}
Summaries == {User(<<>>, Master, {"3"}, {"c", "3", "1", "0"}, Errors, 2)}
UpperZero == {User(<<>>, Master, {"2"}, {"c", "2", "0", "CR"}, {}, 2)}
TwoMenus == {User(<<>>, Both, {}, {"c", "0"}, {Err(2, {0}, 0)}, 2)}
ShortList == {User(<<On(<<"1">>)>>, Master, {}, {}, {}, 2)}
ShortMask == {User(<<Mask(<<"3">>)>>, Master, {}, {}, {}, 2)}
Example == {User(<<Console(",", 9600, "e", "8")>>, Master, {}, {}, {}, 2)}

Disagreeing == UNION {SelectsFade, MCDefaults, BadNumbers, BadList, LockedMenu, Summaries, UpperZero,
                      TwoMenus, ShortList, ShortMask, Example}
=============================================================================
