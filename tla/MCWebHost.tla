------------------------------ MODULE MCWebHost ------------------------------
(* TLC instance of WebHost: three ROMs, one of them with a mapper that is  *)
(* not implemented, a file that is no ROM, one button, and two file reads  *)
(* under way at a time.                                                    *)
EXTENDS WebHost

CONSTANTS rom, rom2, odd_rom, text, A

MCRoms == {rom, rom2, odd_rom}
MCUnsupported == {odd_rom}
MCJunk == {text}
MCButtons == {A}

=============================================================================
