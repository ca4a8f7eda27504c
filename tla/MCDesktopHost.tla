---------------------------- MODULE MCDesktopHost ----------------------------
(* TLC instance of DesktopHost: two ROMs, one with a mapper that is not    *)
(* implemented, a text file opened as what it is and under a ROM's name.   *)
EXTENDS DesktopHost

CONSTANTS rom, odd_rom, text, A

MCRoms == {rom, odd_rom}
MCUnsupported == {odd_rom}
MCJunk == {text}
MCButtons == {A}
MCPaths == {[nes |-> TRUE, content |-> c] : c \in {rom, odd_rom, text}}
               \cup {[nes |-> FALSE, content |-> text]}

=============================================================================
