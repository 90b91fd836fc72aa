---------------------------- MODULE PixelFormats ----------------------------
(***************************************************************************)
(* The conversions of images in flat buffers of widget/x11/XWidget.ipp.       *)
(* A buffer is a function from offsets 0, 1, ... to bytes; dest is what it     *)
(* held before.  A pixel has three colours and, if it takes 4 bytes, one      *)
(* more that no conversion touches.                                         *)
(***************************************************************************)
EXTENDS Integers

\* convert32to24 and convert24to32.
convert(src, dest, size, from, to) ==
  [k \in DOMAIN dest |-> IF k % to < 3 /\ k \div to < size
                         THEN src[from * (k \div to) + (k % to)] ELSE dest[k]]

\* swapRGBandAxis24 and 32, with the bytes of a pixel: the rows upside down, and
\* red in the place of blue.
swapRGBandAxis(src, dest, width, height, bytes) ==
  LET W == width * bytes
      Source(k) == W * (height - 1 - (k \div W)) + (k % W) - (k % bytes) + 2 - (k % bytes)
  IN [k \in DOMAIN dest |-> IF k % bytes < 3 THEN src[Source(k)] ELSE dest[k]]

swapRGB24(src, width, height) ==
  [k \in DOMAIN src |-> IF k < 3 * width * height THEN src[k - (k % 3) + 2 - (k % 3)] ELSE src[k]]
-----------------------------------------------------------------------------
\* No picture is damaged on its way: 32 to 24 bits and back keeps every colour
\* and the fourth byte, and a second swap undoes the first
\* (XWidget.ipp:280-375).
PicturesSurvive(width, height) ==
  LET size == width * height
      Buffer(bytes) == [k \in 0 .. size * bytes - 1 |-> k]
      blank(bytes) == [k \in 0 .. size * bytes - 1 |-> -1]
      Twice(bytes) == swapRGBandAxis(swapRGBandAxis(Buffer(bytes), Buffer(bytes), width, height, bytes),
                                     Buffer(bytes), width, height, bytes)
  IN /\ convert(convert(Buffer(4), blank(3), size, 4, 3), Buffer(4), size, 3, 4) = Buffer(4)
     /\ \A k \in DOMAIN Buffer(3) : convert(Buffer(4), blank(3), size, 4, 3)[k] # -1
     /\ Twice(3) = Buffer(3) /\ Twice(4) = Buffer(4)
     /\ swapRGB24(swapRGB24(Buffer(3), width, height), width, height) = Buffer(3)
     /\ height = 1 => swapRGB24(Buffer(3), width, height)
                      = swapRGBandAxis(Buffer(3), blank(3), width, height, 3)
=============================================================================
