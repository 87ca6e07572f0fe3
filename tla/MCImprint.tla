---------------------------- MODULE MCImprint ----------------------------
(* A published image of nine bytes, and values that are empty, short, as *)
(* long as fits, one byte too long, all filler, or hold a marker.           *)
EXTENDS Imprint, Sequences

mcBytes == {"ssid>", "pass>", ".", "0", "a"}
mcPublished == <<"ssid>", ".", ".", ".", "a", "pass>", ".", ".", "0">>
Value(bytes) == [size |-> Len(bytes), bytes |-> bytes]
mcValues ==
  {Value(bytes) : bytes \in {<<>>, <<"a">>, <<"a", "a">>, <<".", ".", ".">>,
                             <<"pass>">>, <<"a", "ssid>">>}}

=============================================================================
