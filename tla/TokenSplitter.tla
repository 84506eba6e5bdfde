--------------------------- MODULE TokenSplitter ---------------------------
(***************************************************************************)
(* enStrTok of token/token.c: an array of pointers to the fields of a      *)
(* string, its length taken from a count of delimiters and its elements    *)
(* from strtok.  A string is the sequence of its characters.               *)
(***************************************************************************)
EXTENDS Naturals, Sequences, FiniteSetsExt

\* strtok (external): every character of the word delimits.
Delims(word) == {word[k] : k \in 1 .. Len(word)}
From(string, i, P) == {k \in i .. Len(string) : (string[k] \in P)}

\* strlen and the loop on string[count] == *word; an empty word begins with its
\* terminator, which no character of the string equals.
Counted(string, word) ==
  IF word = <<>> THEN 0
  ELSE Cardinality({count \in 1 .. Len(string) : string[count] = word[1]})

\* Mutated form of Allocated: one pointer for each delimiter.
AllocatedOnePerDelimiter(string, word) == Counted(string, word)

\* malloc(++argc * sizeof(char *))
Allocated(string, word) == Counted(string, word) + 1

\* The field that strtok finds from position i on, where there is one: from the
\* first character that delimits nothing to before the next that does.
Others(string, word) == {string[k] : k \in 1 .. Len(string)} \ Delims(word)
StartOf(string, word, i) == Min(From(string, i, Others(string, word)))
EndOf(string, word, i) ==
  Min(From(string, StartOf(string, word, i), Delims(word)) \cup {Len(string) + 1})

\* The fields the calls of strtok return from each position on.
Tokens(string, word) ==
  LET tokens[i \in 1 .. Len(string) + 1] ==
        IF From(string, i, Others(string, word)) = {} THEN <<>>
        ELSE LET end == EndOf(string, word, i)
             IN  <<SubSeq(string, StartOf(string, word, i), end - 1)>>
                   \o (IF end > Len(string) THEN <<>> ELSE tokens[end + 1])
  IN  tokens

\* What the function stores through tmp, and how many pointers it may.
enStrTok(string, word) ==
  [argc |-> Allocated(string, word), array |-> Tokens(string, word)[1]]

-----------------------------------------------------------------------------
\* The fields of a string: its longest pieces without a delimiter.
Fields(string, word) ==
  {f \in (1 .. Len(string)) \X (1 .. Len(string)) :
     /\ f[1] <= f[2]
     /\ \A k \in f[1] .. f[2] : string[k] \notin Delims(word)
     /\ f[1] > 1 => string[f[1] - 1] \in Delims(word)
     /\ f[2] < Len(string) => string[f[2] + 1] \in Delims(word)}

\* The fields are returned in their order, none of them empty.
IsSplit(string, word, array) ==
  LET F == Fields(string, word) IN
  /\ Len(array) = Cardinality(F)
  /\ \A f \in F :
       array[Cardinality({g \in F : g[1] <= f[1]})] = SubSeq(string, f[1], f[2])

\* The characters that strtok splits at and the count does not see.
Uncounted(string, word) ==
  \E k \in 1 .. Len(string) : string[k] \in Delims(word) /\ string[k] # word[1]
=============================================================================
