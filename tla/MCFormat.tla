------------------------------- MODULE MCFormat -------------------------------
(* Format with every short format and numeral over a few characters.        *)
EXTENDS Format

CONSTANTS FormatLength, ScanLength

\* a % d x s c l 0 .
FormatChar == {97, 37, 100, 120, 115, 99, 108, 48, 46}
MCStrArgs == {<<>>, <<115, 116, 114>>}

Longer == {<<97, 37, 100, 97>>, <<37, 115, 37, 100>>, <<37, 100, 97, 37>>,
           <<37, 108, 108, 120>>, <<37, 104, 104, 117>>, <<37, 112>>,
           <<37, 45, 49, 46, 49, 108, 111>>}

MCFormats == String(FormatChar, FormatLength) \cup Longer
MCLineFormats == String(FormatChar, FormatLength - 1) \cup Longer

\* blank - 0 1 2 9 a F X x
MCScanned == String({32, 45, 48, 49, 50, 57, 70, 88, 97, 120}, ScanLength)
=============================================================================
