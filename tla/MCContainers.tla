---------------------------- MODULE MCContainers ----------------------------
\* Containers with a few elements, nodes, keys and sizes.
EXTENDS Containers

\* The addresses of list elements are interchangeable.
ElementSymmetry == Permutations(Elements)
=============================================================================
