CONSTANTS
  MaxNp = 6
  MaxNm = 3
  MaxStep = 2
SPECIFICATION Spec
INVARIANTS TypeOK MoversListed Compacted CleanUpBalanced RaceFree
PROPERTIES StayersUntouched
