SPECIFICATION Spec
CONSTANTS
    Ann = Ann
    Ben = Ben
    Cyd = Cyd
    p1 = p1
    p2 = p2
    x = x
    Subject <- Ann
    Others <- MCOthers
    Joiners <- MCJoiners
    Nobody = Nobody
    Projects <- MCProjects
    Techs <- MCTechs
    Levels <- MCLevels
    Absent = Absent
    MaxPosts = 2
SYMMETRY MCSymmetry
CHECK_DEADLOCK FALSE
PROPERTIES
    PrivateNeverAffects
