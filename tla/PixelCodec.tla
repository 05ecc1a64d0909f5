----------------------------- MODULE PixelCodec -----------------------------
(***************************************************************************)
(* How samples become octets: the 4:2:2 10-bit pixel groups of an          *)
(* uncompressed frame (pixel_codec.cu) and the codewords of IP10           *)
(* (ip10_codec.hpp, its row walk in ip10_codec.cpp and ip10_codec.cu).     *)
(* A pixel group is the four samples <<Cb, Y0, Cr, Y1>> of two pixels; a   *)
(* lane of a line is the sequence of its first, second, ... samples.       *)
(***************************************************************************)
EXTENDS Integers, Sequences

Samples == 0 .. 1023
Octet   == 0 .. 255

-----------------------------------------------------------------------------
(* Uncompressed: four samples of ten bits in five octets *)

PackGroup(s) ==
  << s[1] \div 4,
     (s[1] % 4) * 64 + s[2] \div 16,
     (s[2] % 16) * 16 + s[3] \div 64,
     (s[3] % 64) * 4 + s[4] \div 256,
     s[4] % 256 >>

UnpackGroup(b) ==
  << b[1] * 4 + b[2] \div 64,
     (b[2] % 64) * 16 + b[3] \div 16,
     (b[3] % 16) * 64 + b[4] \div 4,
     (b[4] % 4) * 256 + b[5] >>

-----------------------------------------------------------------------------
(* IP10: a sample of ten bits in an octet.  A table places the window of    *)
(* samples that are kept exactly; the others are kept in steps of a width.  *)

LossyWidth    == 7                 \* lossy_code_width
LossyRounding == LossyWidth \div 2
Codes         == 128               \* lossless_codes, lossy_codes and lossy_flag
Tables        == 0 .. Codes
DefaultTable  == Codes \div 2
LowestThresh  == Codes \div 2
HighestThresh == 1024 - Codes \div 2

\* The table for the next sample of the lane, from the sample as decoded.
NextTable(sample) ==
  IF sample < LowestThresh THEN 0
  ELSE IF sample >= HighestThresh THEN Codes
  ELSE (sample - LowestThresh + LossyRounding) \div LossyWidth

EncodeSample(table, sample) ==
  LET low  == table * LossyWidth
      high == low + Codes
  IN  IF sample < low THEN Codes + sample \div LossyWidth
      ELSE IF sample >= high THEN Codes + (sample - high) \div LossyWidth + table
      ELSE sample - low

DecodeSample(table, code) ==
  LET index == code % Codes
  IN  IF code < Codes THEN table * LossyWidth + index
      ELSE IF index < table THEN index * LossyWidth + LossyRounding
      ELSE index * LossyWidth + LossyRounding + Codes

\* a bug: the encoder goes by the sample and not by what the decoder will see.
BugContext(table, sample) == sample
\* What the encoder takes for the previous sample of its lane.
Context(table, sample) == DecodeSample(table, EncodeSample(table, sample))

\* A lane of one line, from the middle table on.
EncodeLane(samples) ==
  LET walk[n \in 0 .. Len(samples)] ==
        IF n = 0 THEN [table |-> DefaultTable, codes |-> <<>>]
        ELSE LET w == walk[n - 1]
             IN  [table |-> NextTable(Context(w.table, samples[n])),
                  codes |-> Append(w.codes, EncodeSample(w.table, samples[n]))]
  IN  walk[Len(samples)].codes

DecodeLane(codes) ==
  LET walk[n \in 0 .. Len(codes)] ==
        IF n = 0 THEN [table |-> DefaultTable, samples |-> <<>>]
        ELSE LET w == walk[n - 1]
                 s == DecodeSample(w.table, codes[n])
             IN  [table |-> NextTable(s), samples |-> Append(w.samples, s)]
  IN  walk[Len(codes)].samples
-----------------------------------------------------------------------------
(* A line of pixel groups *)

\* The lanes of a line: a row of Cb, Y0, Cr or Y1 samples, or of their codewords.
Lanes(line) == [c \in 1 .. 4 |-> [k \in 1 .. Len(line) |-> line[k][c]]]

EncodeLine(ip10, line) ==
  IF ip10 THEN LET coded == [c \in 1 .. 4 |-> EncodeLane(Lanes(line)[c])]
               IN  [k \in 1 .. Len(line) |-> [c \in 1 .. 4 |-> coded[c][k]]]
  ELSE [k \in 1 .. Len(line) |-> PackGroup(line[k])]

DecodeLine(ip10, line) ==
  IF ip10 THEN LET decoded == [c \in 1 .. 4 |-> DecodeLane(Lanes(line)[c])]
               IN  [k \in 1 .. Len(line) |-> [c \in 1 .. 4 |-> decoded[c][k]]]
  ELSE [k \in 1 .. Len(line) |-> UnpackGroup(line[k])]

Distance(a, b) == IF a < b THEN b - a ELSE a - b

\* The error a sample may have: none, or half a step.
Tolerance(ip10) == IF ip10 THEN LossyRounding ELSE 0
=============================================================================
