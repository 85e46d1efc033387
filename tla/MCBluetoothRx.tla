--------------------------- MODULE MCBluetoothRx ---------------------------
(***************************************************************************)
(* A queue shorter than the longest word and the smallest buffer that holds  *)
(* every token, so that both overflow within a few words.                    *)
(***************************************************************************)
EXTENDS BluetoothRx

\* Both vocabularies, small letters, and the emergency stop nothing detects.
MCWords == {<<"U", "P">>, <<"d", "o", "w", "n">>, <<"L", "F", "T">>,
            <<"R", "I", "G", "H", "T">>, <<"C">>, <<"D">>}
=============================================================================
