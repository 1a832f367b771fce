------------------------------ MODULE MCCodecs ------------------------------
(* Words with all bytes different, with none and with the highest bit set.    *)
EXTENDS Codecs

MCWords == {<<18, 52, 86, 120>>, <<0, 0, 0, 0>>, <<56, 109, 67, 128>>}
MCMasks == {129}
MCFreqs == {-6500001, 16001}
=============================================================================
