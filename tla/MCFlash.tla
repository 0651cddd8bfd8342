------------------------------ MODULE MCFlash ------------------------------
EXTENDS Flash

\* A device of eight blocks of two bytes; the last block of each range is only half used.
MCDefaults == [erase |-> Range32(0, 6), preloader |-> Range32(1, 2), fip |-> Range32(3, 3)]
MCArgs == [eraseCount |-> Absent, preloaderStart |-> Absent, preloaderCount |-> Absent,
           fipStart |-> Absent, fipCount |-> Absent]

MCSizes(p, f) == [image \in Images |-> IF image = "preloader" THEN p ELSE f]
MCSizeChoices == {MCSizes(3, 5)}
MCMisfits == {MCSizes(3, 5), MCSizes(0, 5), MCSizes(5, 5), MCSizes(3, 7)}

\* U-Boot has been waiting at its prompt, or is just printing it.
MCQuiet == {<<>>}
MCPrinting == {<<UBOOT, SPACE>>}
MCPending == MCQuiet \cup MCPrinting
=============================================================================
