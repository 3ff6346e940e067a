-------------------------------- MODULE MCImage --------------------------------
(* Image with up to three files, blocks of eleven words and names of up to two. *)
EXTENDS Image

a == 97
b == 98

Sized(sizes) ==
    [f \in DOMAIN sizes |-> [name |-> CASE f = 1 -> <<a>> [] f = 2 -> <<a, b>> [] f = 3 -> <<b>>,
                             size |-> sizes[f]]]

\* Files that end inside of a block, and last ones that end with it.
MCFiles ==
    {Sized(s) : s \in {<<1>>, <<12, 10>>, <<11>>, <<1, 22>>, <<23, 5, 12>>, <<12, 14, 0>>}}
        \cup {<<[name |-> <<b, a>>, size |-> 3], [name |-> <<b>>, size |-> 12]>>}
\* A file that ends with its block, and another after it.
MCMultiple == {Sized(<<11, 12>>)}

MCNames == {<<a>>, <<b>>, <<a, b>>, <<b, a>>}

==============================================================================
