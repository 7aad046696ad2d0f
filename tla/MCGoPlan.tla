------------------------------- MODULE MCGoPlan -------------------------------
(* Releases of two series whose texts are not in the order of their numbers, *)
(* and checkouts that name them.                                             *)
EXTENDS GoPlan

MCNames == {<<9>>, <<9, 1>>, <<10, 0>>, <<10, 1>>, << >>}

File(go, toolchain) == [go |-> go, toolchain |-> toolchain]
Checkout(root, tools, example) ==
    [m \in Modules |-> CASE m = "root" -> root [] m = "tools" -> tools [] OTHER -> example]

\* As in the repository: the floor below the preferred compiler of the root,
\* and an example that has been updated already; a toolchain line that is older
\* than the go line; tools that ask for more than what they check; go lines
\* that are missing, repeated or not plain.
Older == File(<< <<9>> >>, << >>)
Newer == File(<< <<10, 1>> >>, << >>)
MCManifests ==
    {Checkout(File(<< <<9, 1>> >>, << <<10, 0>> >>), Older, Newer),
     Checkout(Older, Older, File(<< <<10, 0>> >>, << <<9, 1>> >>)),
     Checkout(Older, Newer, File(<< <<9, 1>> >>, << >>)),
     Checkout(Older, File(<< >>, << >>), Newer),
     Checkout(File(<< <<9>>, <<9>> >>, << >>), Older, Newer),
     Checkout(Older, Older, File(<< <<9>> >>, << << >> >>))}
=============================================================================
