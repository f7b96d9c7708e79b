\* Bytes of four bits, vectors of up to nine: three bytes, the last one partly used.
SPECIFICATION Spec
CONSTANTS
  ByteBits = 4
  MaxBits = 9
  MaxArgBits = 5
  AppendBitsAnywhere = FALSE
INVARIANTS RepresentsBits SlicesAgree IntegersAgree ComparisonsAgree
