-------------------------------- MODULE MCTerm ---------------------------------
(* Term with short texts. *)
EXTENDS Term

CONSTANTS a, b

\* Newlines of all kinds, inside of a text and where one text ends and the next
\* begins; but none where a "\n" continues a "\r" of the text before and more
\* follows.
MCTexts ==
    {"write", "puts"} \X {<<a, CR>>, <<b, LF, CR>>, <<a, CR, LF>>, <<CR, CR, b>>}
        \cup {"printf"} \X {<<b, LF>>, <<CR, a, LF>>}
\* A "\n" that continues a "\r", and more after it.
MCSplit == {"write"} \X {<<a, CR>>, <<LF, b>>}

==============================================================================
