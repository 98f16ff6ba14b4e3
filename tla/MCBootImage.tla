------------------------------ MODULE MCBootImage ------------------------------
EXTENDS BootImage

\* Headers of eight cells: three of the command line, two sizes.  One base has
\* a line as long as the field, one a short line, one is cut short.
MCBases == { <<5, 9, 3, 6, 41, 42, 43, 7, 7, 8, 8, 8, 1, 1>>,
             <<5, 6, 3, 7, 41, 10, 0, 7, 7, 8, 8, 8>>,
             <<5, 9, 3, 6, 41, 42>> }

MCKernels  == { <<>>, <<11>>, <<11, 12, 13>>, <<11, 12, 13, 14, 15>> }
MCRamdisks == { <<21>>, <<21, 22, 23>>, <<21, 22, 23, 24>> }

\* Lines that fit, one of them with a variant, and one that does not.
MCLines == { <<>>, <<31>>, <<31, 35>>, <<31, 32, 33>> }

=============================================================================
