\* Every process of '88 and of the '94 draft, on a core of three cells.
CONSTANTS
  CoreSize = 3
  Under <- AllUnder
  Backdrop <- Cells
  Under94 <- AllUnder94
  Backdrop94 <- Cells94
SPECIFICATION ProcessesSpec
INVARIANTS CoresOK AllRelocatable MovThenCmp88
           FastAsSlow94 BenchAsOpt94 DivThenMod94
           TestsOpposite94 As88
PROPERTY CodesOnlyCopied88
CHECK_DEADLOCK FALSE
